---- MODULE Spec2Model ----
(***************************************************************************)
(* Model of the scheduling core of scrub-in:                               *)
(*   generateSchedule, detectScheduleConflicts and suggestAlternativeStaff *)
(*   of client/src/lib/enhanced-scheduling-algorithm.ts.                   *)
(*                                                                         *)
(* Dates are day numbers: the string "YYYY-MM-DD" of day n. Day 0 is a     *)
(* Sunday (2023-12-31), day 1 is Monday 2024-01-01. Date arithmetic is the *)
(* one the code performs in a UTC environment (setDate(getDate() +/- 1)    *)
(* moves by one calendar day, getDay() is the day of the week).            *)
(* JavaScript null is NULL (0), undefined is UNDEFINED (-1); catalog ids   *)
(* are positive (serial primary keys), so truthiness of an id is id > 0.   *)
(***************************************************************************)
EXTENDS Integers, Sequences, FiniteSets, TLC

\* ------------------------------------------------------------------ bounds
MaxStaff == 4
MaxDate == 7
MaxInputs == 2
MaxAvailDate == 2
MaxExistingDate == 1
MaxDetRows == 2
MaxDetDate == 2
MaxCalls == 2
MaxCatalogDate == 3
MaxHistoryStaff == 2
MaxPreDutyStaff == 9
MaxOldRows == 6
MaxRuns == 3
MaxCallStaff == 3
MaxCallDate == 2
MaxFairStaff == 3
MaxFairDate == 2
MaxStoreStaff == 2
MaxStoreDate == 1
MaxBatch == 2
MaxRequests == 2

\* ------------------------------------------------------- program constants
MAX_CONSECUTIVE_SHIFTS == 5
MAX_SHIFTS_PER_WEEK == 5

NULL == 0
UNDEFINED == -1
NoDate == -1

\* ------------------------------------------------------------ JS helpers
Truthy(x) == x > 0

Min2(a, b) == IF a < b THEN a ELSE b
Max2(a, b) == IF a > b THEN a ELSE b

\* Math.ceil(n / k) for n >= 0, k > 0
CeilDiv(n, k) == (n + k - 1) \div k

SeqToSet(s) == {s[i] : i \in 1..Len(s)}

\* Array.prototype.sort with a comparator: stable (ES2019), so an element is
\* placed right behind the last element it does not compare strictly below.
InsertStable(sorted, x, Cmp(_, _)) ==
  LET notBelow == {i \in 1..Len(sorted) : Cmp(x, sorted[i]) >= 0}
      k == IF notBelow = {} THEN 0
           ELSE CHOOSE i \in notBelow : \A j \in notBelow : j <= i
  IN SubSeq(sorted, 1, k) \o <<x>> \o SubSeq(sorted, k + 1, Len(sorted))

JsSort(s, Cmp(_, _)) ==
  LET sortedPrefix[i \in 0..Len(s)] ==
        IF i = 0 THEN <<>> ELSE InsertStable(sortedPrefix[i - 1], s[i], Cmp)
  IN sortedPrefix[Len(s)]

\* Array.prototype.find on a catalog: the id of the first entry whose name is
\* in names, UNDEFINED when there is none
RECURSIVE FindIdByName(_, _)
FindIdByName(catalog, names) ==
  IF catalog = <<>> THEN UNDEFINED
  ELSE IF Head(catalog).name \in names THEN Head(catalog).id
       ELSE FindIdByName(Tail(catalog), names)

\* mutant: a missing catalog entry leaves the id undefined instead of 0
OrZeroUndefinedKept(x) == x

\* x || 0
OrZero(x) == IF Truthy(x) THEN x ELSE 0
\* x || null
OrNull(x) == IF Truthy(x) THEN x ELSE NULL

\* ------------------------------------------------------------------ dates
\* getWeekKey: the Sunday that starts the date's week
getWeekKey(d) == d - (d % 7)

getPreviousDay(d) == d - 1

\* the while loop that enumerates the dates of [startDate, endDate]
RECURSIVE DateRange(_, _)
DateRange(from, to) ==
  IF from > to THEN <<>> ELSE <<from>> \o DateRange(from + 1, to)

\* --------------------------------------------------------------- catalogs
ShiftCatalog ==
  << [id |-> 1, name |-> "Day Shift"],
     [id |-> 2, name |-> "Evening Shift"],
     [id |-> 3, name |-> "Night Shift"] >>

DutyCatalog ==
  << [id |-> 1, name |-> "Pre-Duty"],
     [id |-> 2, name |-> "Duty"],
     [id |-> 3, name |-> "Post-Duty"] >>

\* the roster entry of staff id i (specialization is nullable text)
StaffRecord(i) ==
  [id |-> i,
   specialization |-> IF i % 2 = 0 THEN "ICU" ELSE IF i % 3 = 0 THEN "" ELSE "ER"]

VARIABLES
  \* inputs of generateSchedule
  staff, shiftTypes, dutyTypes, availabilities, startDate, endDate, unit,
  existingSchedules,
  \* locals of generateSchedule
  pc, dates, dateIdx, staffLoads, staffDutyPatterns, weeklySchedules,
  schedules, conflicts, assignedShifts, availableStaff,
  \* the schedule editor's conflict check: the entry being checked, the result
  \* of the latest detectScheduleConflicts call, the result before it, the calls,
  \* the alternatives suggestAlternativeStaff returned
  scheduleToCheck, detectedConflicts, previousConflicts, detectCalls,
  alternativeStaff,
  \* the results of the generateSchedule calls that returned so far
  returned,
  \* the server: MemStorage's schedule map and id counter, the POST requests
  \* being handled, and whether an await lets another request's handler run
  schedulesMap, scheduleIdCounter, requests, awaitYields

genInputs == << staff, shiftTypes, dutyTypes, availabilities, startDate, endDate,
                unit, existingSchedules >>
genLocals == << pc, dates, dateIdx, staffLoads, staffDutyPatterns, weeklySchedules,
                schedules, conflicts, assignedShifts, availableStaff >>
detVars == << scheduleToCheck, detectedConflicts, previousConflicts, detectCalls,
             alternativeStaff >>
serverVars == << schedulesMap, scheduleIdCounter, requests, awaitYields >>
vars == << genInputs, genLocals, detVars, returned, serverVars >>
\* what no step of generateSchedule writes
genFrame == << genInputs, detVars, returned, serverVars >>
\* the same, but for the roster
genFrameButStaff ==
  << shiftTypes, dutyTypes, availabilities, startDate, endDate, unit,
     existingSchedules, detVars, returned, serverVars >>

\* a server that handles no request, with an empty store (new MemStorage())
ServerIdle ==
  /\ schedulesMap = << >>
  /\ scheduleIdCounter = 1
  /\ requests = << >>
  /\ awaitYields = FALSE

\* ------------------------------------------------- generateSchedule: setup
preDutyId == OrZero(FindIdByName(dutyTypes, {"Pre-Duty"}))
dutyId == OrZero(FindIdByName(dutyTypes, {"Duty"}))
postDutyId == OrZero(FindIdByName(dutyTypes, {"Post-Duty"}))

dayShiftId == FindIdByName(shiftTypes, {"Day Shift"})
eveningShiftId == FindIdByName(shiftTypes, {"Evening Shift", "Mid Shift"})
nightShiftId == FindIdByName(shiftTypes, {"Night Shift"})

StaffIds == {staff[i].id : i \in 1..Len(staff)}

InitialPattern ==
  [preDuty |-> 0, duty |-> 0, postDuty |-> 0,
   dayShift |-> 0, eveningShift |-> 0, nightShift |-> 0]

\* mutant: the load records live outside the call and survive it
InitialLoadShared(s) ==
  IF s.id \in DOMAIN staffLoads THEN staffLoads[s.id]
  ELSE [consecutiveShifts |-> 0, totalShifts |-> 0, nightShifts |-> 0,
        lastShiftDate |-> NoDate, lastShiftType |-> NULL, restDays |-> 0,
        specialization |-> s.specialization]

InitialLoad(s) ==
  [consecutiveShifts |-> 0, totalShifts |-> 0, nightShifts |-> 0,
   lastShiftDate |-> NoDate, lastShiftType |-> NULL, restDays |-> 0,
   specialization |-> s.specialization]

\* weeklySchedules[weekKey][staffId] || 0
WeeklyCount(weekly, weekKey, id) ==
  IF <<weekKey, id>> \in DOMAIN weekly THEN weekly[<<weekKey, id>>] ELSE 0

WeeklyIncrement(weekly, weekKey, id) ==
  (<<weekKey, id>> :> (WeeklyCount(weekly, weekKey, id) + 1)) @@ weekly

\* mutant: the stored entries are not counted
SeedExistingIgnored(st, schedule) == st

\* one iteration of the loop over existingSchedules; st = [loads, patterns, weekly]
SeedExisting(st, schedule) ==
  LET id == schedule.staffId
      load == st.loads[id]
      pat == st.patterns[id]
      worked == Truthy(schedule.shiftTypeId)
      load2 ==
        IF worked
        THEN [load EXCEPT !.totalShifts = @ + 1,
                          !.lastShiftDate = schedule.date,
                          !.lastShiftType = schedule.shiftTypeId,
                          !.nightShifts =
                             IF schedule.shiftTypeId = nightShiftId THEN @ + 1 ELSE @]
        ELSE load
      pat2 ==
        IF worked
        THEN [pat EXCEPT !.nightShift =
                            IF schedule.shiftTypeId = nightShiftId THEN @ + 1 ELSE @,
                         !.dayShift =
                            IF schedule.shiftTypeId = dayShiftId THEN @ + 1 ELSE @,
                         !.eveningShift =
                            IF schedule.shiftTypeId # dayShiftId
                               /\ schedule.shiftTypeId = eveningShiftId
                            THEN @ + 1 ELSE @]
        ELSE pat
      pat3 ==
        IF schedule.dutyTypeId = dutyId THEN [pat2 EXCEPT !.duty = @ + 1]
        ELSE IF schedule.dutyTypeId = preDutyId THEN [pat2 EXCEPT !.preDuty = @ + 1]
        ELSE IF schedule.dutyTypeId = postDutyId THEN [pat2 EXCEPT !.postDuty = @ + 1]
        ELSE pat2
  IN IF id \notin DOMAIN st.loads THEN st
     ELSE [loads |-> [st.loads EXCEPT ![id] = load2],
           patterns |-> [st.patterns EXCEPT ![id] = pat3],
           weekly |-> WeeklyIncrement(st.weekly, getWeekKey(schedule.date), id)]

RECURSIVE SeedAll(_, _)
SeedAll(st, existing) ==
  IF existing = <<>> THEN st
  ELSE SeedAll(SeedExisting(st, Head(existing)), Tail(existing))

\* Start: everything generateSchedule does before the loop over the dates
Start ==
  /\ pc = "start"
  /\ LET st0 == [loads |-> [i \in StaffIds |->
                              InitialLoad(CHOOSE s \in SeqToSet(staff) : s.id = i)],
                 patterns |-> [i \in StaffIds |-> InitialPattern],
                 weekly |-> << >>]
         st1 == SeedAll(st0, existingSchedules)
     IN /\ staffLoads' = st1.loads
        /\ staffDutyPatterns' = st1.patterns
        /\ weeklySchedules' = st1.weekly
  /\ dates' = DateRange(startDate, endDate)
  /\ dateIdx' = 1
  /\ pc' = IF startDate > endDate THEN "done" ELSE "day"
  /\ schedules' = <<>>
  /\ conflicts' = <<>>
  /\ assignedShifts' = {}
  /\ availableStaff' = <<>>
  /\ UNCHANGED genFrame

\* ----------------------------------------- generateSchedule: per-date steps
Conflict(type, id, date, severity) ==
  [type |-> type, staffId |-> id, date |-> date, severity |-> severity]

\* conflicts.find(c => c.staffId === id && c.date === date)?.severity
FirstSeverity(cs, id, date) ==
  LET hits == {i \in 1..Len(cs) : cs[i].staffId = id /\ cs[i].date = date}
  IN IF hits = {} THEN "undefined"
     ELSE cs[CHOOSE i \in hits : \A j \in hits : i <= j].severity

\* mutant: any conflict, a warning too, blocks the assignment
MayAssignNoConflict(hasConflict, cs, id, date) == ~hasConflict

\* the assignment test shared by the day, evening and night walks
MayAssign(hasConflict, cs, id, date) ==
  \/ ~hasConflict
  \/ (hasConflict /\ FirstSeverity(cs, id, date) = "warning")

unavailableStaffIds(date) ==
  {a.staffId : a \in {x \in availabilities : x.date = date /\ ~x.isAvailable}}

\* mutant: the pool is the whole roster, unavailable members included
AvailablePoolUnfiltered(date) == staff

\* staff.filter(s => !unavailableStaffIds.includes(s.id))
AvailablePool(date) ==
  LET Keep(s) == s.id \notin unavailableStaffIds(date)
  IN SelectSeq(staff, Keep)

\* mutant: the final tie-break prefers the higher staff id
RankCompareHighIdFirst(a, b, loads, patterns, weekly, weekKey, date) ==
  LET aLoad == loads[a.id]
      bLoad == loads[b.id]
      aPattern == patterns[a.id]
      bPattern == patterns[b.id]
      isAUnavailable == a.id \in unavailableStaffIds(date)
      isBUnavailable == b.id \in unavailableStaffIds(date)
      aWeeklyShifts == WeeklyCount(weekly, weekKey, a.id)
      bWeeklyShifts == WeeklyCount(weekly, weekKey, b.id)
      aDutyTotal == aPattern.duty + aPattern.preDuty + aPattern.postDuty
      bDutyTotal == bPattern.duty + bPattern.preDuty + bPattern.postDuty
      aShiftTotal == aPattern.dayShift + aPattern.eveningShift + aPattern.nightShift
      bShiftTotal == bPattern.dayShift + bPattern.eveningShift + bPattern.nightShift
      aSpecMatch == aLoad.specialization = unit
      bSpecMatch == bLoad.specialization = unit
  IN IF isAUnavailable # isBUnavailable THEN (IF isAUnavailable THEN 1 ELSE -1)
     ELSE IF aLoad.totalShifts # bLoad.totalShifts
       THEN aLoad.totalShifts - bLoad.totalShifts
     ELSE IF aWeeklyShifts # bWeeklyShifts THEN aWeeklyShifts - bWeeklyShifts
     ELSE IF aDutyTotal # bDutyTotal THEN aDutyTotal - bDutyTotal
     ELSE IF aShiftTotal # bShiftTotal THEN aShiftTotal - bShiftTotal
     ELSE IF aPattern.dayShift # bPattern.dayShift
       THEN aPattern.dayShift - bPattern.dayShift
     ELSE IF aPattern.eveningShift # bPattern.eveningShift
       THEN aPattern.eveningShift - bPattern.eveningShift
     ELSE IF aPattern.nightShift # bPattern.nightShift
       THEN aPattern.nightShift - bPattern.nightShift
     ELSE IF aLoad.restDays # bLoad.restDays THEN bLoad.restDays - aLoad.restDays
     ELSE IF unit # "" /\ aSpecMatch # bSpecMatch THEN (IF aSpecMatch THEN -1 ELSE 1)
     ELSE b.id - a.id

\* the comparator of availableStaff.sort
RankCompare(a, b, loads, patterns, weekly, weekKey, date) ==
  LET aLoad == loads[a.id]
      bLoad == loads[b.id]
      aPattern == patterns[a.id]
      bPattern == patterns[b.id]
      isAUnavailable == a.id \in unavailableStaffIds(date)
      isBUnavailable == b.id \in unavailableStaffIds(date)
      aWeeklyShifts == WeeklyCount(weekly, weekKey, a.id)
      bWeeklyShifts == WeeklyCount(weekly, weekKey, b.id)
      aDutyTotal == aPattern.duty + aPattern.preDuty + aPattern.postDuty
      bDutyTotal == bPattern.duty + bPattern.preDuty + bPattern.postDuty
      aShiftTotal == aPattern.dayShift + aPattern.eveningShift + aPattern.nightShift
      bShiftTotal == bPattern.dayShift + bPattern.eveningShift + bPattern.nightShift
      aSpecMatch == aLoad.specialization = unit
      bSpecMatch == bLoad.specialization = unit
  IN IF isAUnavailable # isBUnavailable THEN (IF isAUnavailable THEN 1 ELSE -1)
     ELSE IF aLoad.totalShifts # bLoad.totalShifts
       THEN aLoad.totalShifts - bLoad.totalShifts
     ELSE IF aWeeklyShifts # bWeeklyShifts THEN aWeeklyShifts - bWeeklyShifts
     ELSE IF aDutyTotal # bDutyTotal THEN aDutyTotal - bDutyTotal
     ELSE IF aShiftTotal # bShiftTotal THEN aShiftTotal - bShiftTotal
     ELSE IF aPattern.dayShift # bPattern.dayShift
       THEN aPattern.dayShift - bPattern.dayShift
     ELSE IF aPattern.eveningShift # bPattern.eveningShift
       THEN aPattern.eveningShift - bPattern.eveningShift
     ELSE IF aPattern.nightShift # bPattern.nightShift
       THEN aPattern.nightShift - bPattern.nightShift
     ELSE IF aLoad.restDays # bLoad.restDays THEN bLoad.restDays - aLoad.restDays
     ELSE IF unit # "" /\ aSpecMatch # bSpecMatch THEN (IF aSpecMatch THEN -1 ELSE 1)
     ELSE a.id - b.id

\* availableStaff after the sort
RankedPool(date, loads, patterns, weekly) ==
  LET Cmp(a, b) == RankCompare(a, b, loads, patterns, weekly, getWeekKey(date), date)
  IN JsSort(AvailablePool(date), Cmp)

\* availableStaff.filter(s => !assignedShifts[`${s.id}-${date}`])
Unassigned(pool, assigned) ==
  LET Keep(s) == s.id \notin assigned
  IN SelectSeq(pool, Keep)

\* the three checks of a walk that push a conflict; each yields <<>> or one record
ExistingCheck(id, date) ==
  IF \E i \in 1..Len(existingSchedules) :
       existingSchedules[i].staffId = id /\ existingSchedules[i].date = date
  THEN << Conflict("existing_assignment", id, date, "error") >>
  ELSE << >>

ConsecutiveCheck(load, id, date) ==
  IF load.consecutiveShifts >= MAX_CONSECUTIVE_SHIFTS
  THEN << Conflict("consecutive_shifts", id, date, "warning") >>
  ELSE << >>

\* mutant: the weekly check records nothing
WeeklyCheckSilent(weeklyShiftCount, id, date) == << >>

WeeklyCheck(weeklyShiftCount, id, date) ==
  IF weeklyShiftCount >= MAX_SHIFTS_PER_WEEK
  THEN << Conflict("exceeds_weekly_hours", id, date, "warning") >>
  ELSE << >>

\* schedules.push and the bookkeeping that follows it, per phase.
\* st = [loads, patterns, weekly, schedules, conflicts, assigned, n]
AssignDay(st, id, date) ==
  [st EXCEPT
     !.schedules = Append(@, [staffId |-> id, date |-> date, shiftTypeId |-> dayShiftId,
                              dutyTypeId |-> dutyId, unit |-> unit]),
     !.loads[id] = [@ EXCEPT !.consecutiveShifts = @ + 1, !.totalShifts = @ + 1,
                             !.lastShiftDate = date,
                             !.lastShiftType = OrNull(dayShiftId),
                             !.restDays = 0],
     !.patterns[id] = [@ EXCEPT !.duty = @ + 1, !.dayShift = @ + 1],
     !.weekly = WeeklyIncrement(@, getWeekKey(date), id),
     !.assigned = @ \cup {id},
     !.n = @ + 1]

AssignEvening(st, id, date) ==
  [st EXCEPT
     !.schedules = Append(@, [staffId |-> id, date |-> date,
                              shiftTypeId |-> eveningShiftId,
                              dutyTypeId |-> dutyId, unit |-> unit]),
     !.loads[id] = [@ EXCEPT !.consecutiveShifts = @ + 1, !.totalShifts = @ + 1,
                             !.lastShiftDate = date,
                             !.lastShiftType = OrNull(eveningShiftId),
                             !.restDays = 0],
     !.patterns[id] = [@ EXCEPT !.duty = @ + 1, !.eveningShift = @ + 1],
     !.weekly = WeeklyIncrement(@, getWeekKey(date), id),
     !.assigned = @ \cup {id},
     !.n = @ + 1]

\* mutant: the night walk comes back to a member it has assigned
AssignNightRevisited(st, id, date) ==
  LET entry == [staffId |-> id, date |-> date, shiftTypeId |-> nightShiftId,
                dutyTypeId |-> dutyId, unit |-> unit]
  IN [st EXCEPT
        !.schedules = Append(Append(@, entry), entry),
        !.loads[id] = [@ EXCEPT !.consecutiveShifts = @ + 2, !.totalShifts = @ + 2,
                                !.nightShifts = @ + 2,
                                !.lastShiftDate = date,
                                !.lastShiftType = OrNull(nightShiftId),
                                !.restDays = 0],
        !.patterns[id] = [@ EXCEPT !.duty = @ + 2, !.nightShift = @ + 2],
        !.weekly = WeeklyIncrement(WeeklyIncrement(@, getWeekKey(date), id),
                                   getWeekKey(date), id),
        !.assigned = @ \cup {id},
        !.n = @ + 1]

AssignNight(st, id, date) ==
  [st EXCEPT
     !.schedules = Append(@, [staffId |-> id, date |-> date,
                              shiftTypeId |-> nightShiftId,
                              dutyTypeId |-> dutyId, unit |-> unit]),
     !.loads[id] = [@ EXCEPT !.consecutiveShifts = @ + 1, !.totalShifts = @ + 1,
                             !.nightShifts = @ + 1,
                             !.lastShiftDate = date,
                             !.lastShiftType = OrNull(nightShiftId),
                             !.restDays = 0],
     !.patterns[id] = [@ EXCEPT !.duty = @ + 1, !.nightShift = @ + 1],
     !.weekly = WeeklyIncrement(@, getWeekKey(date), id),
     !.assigned = @ \cup {id},
     !.n = @ + 1]

\* mutant: the pre-duty bookkeeping leaves the weekly counter alone
AssignPreDutyNoWeekly(st, id, date) ==
  [st EXCEPT
     !.schedules = Append(@, [staffId |-> id, date |-> date, shiftTypeId |-> dayShiftId,
                              dutyTypeId |-> preDutyId, unit |-> unit]),
     !.loads[id] = [@ EXCEPT !.consecutiveShifts = @ + 1, !.totalShifts = @ + 1,
                             !.lastShiftDate = date,
                             !.lastShiftType = OrNull(dayShiftId),
                             !.restDays = 0],
     !.patterns[id] = [@ EXCEPT !.preDuty = @ + 1, !.dayShift = @ + 1]]

\* the pre-duty and post-duty bookkeeping does not touch assignedShifts
AssignPreDuty(st, id, date) ==
  [st EXCEPT
     !.schedules = Append(@, [staffId |-> id, date |-> date, shiftTypeId |-> dayShiftId,
                              dutyTypeId |-> preDutyId, unit |-> unit]),
     !.loads[id] = [@ EXCEPT !.consecutiveShifts = @ + 1, !.totalShifts = @ + 1,
                             !.lastShiftDate = date,
                             !.lastShiftType = OrNull(dayShiftId),
                             !.restDays = 0],
     !.patterns[id] = [@ EXCEPT !.preDuty = @ + 1, !.dayShift = @ + 1],
     !.weekly = WeeklyIncrement(@, getWeekKey(date), id)]

AssignPostDuty(st, id, date) ==
  [st EXCEPT
     !.schedules = Append(@, [staffId |-> id, date |-> date, shiftTypeId |-> dayShiftId,
                              dutyTypeId |-> postDutyId, unit |-> unit]),
     !.loads[id] = [@ EXCEPT !.consecutiveShifts = @ + 1, !.totalShifts = @ + 1,
                             !.lastShiftDate = date,
                             !.lastShiftType = OrNull(dayShiftId),
                             !.restDays = 0],
     !.patterns[id] = [@ EXCEPT !.postDuty = @ + 1, !.dayShift = @ + 1],
     !.weekly = WeeklyIncrement(@, getWeekKey(date), id)]

\* the day-shift while loop
RECURSIVE DayWalk(_, _, _, _, _)
DayWalk(st, pool, dayShiftIndex, dayShiftCount, date) ==
  IF ~(st.n < dayShiftCount /\ dayShiftIndex <= Len(pool)) THEN st
  ELSE
    LET id == pool[dayShiftIndex].id
        staffLoad == st.loads[id]
        weeklyShiftCount == WeeklyCount(st.weekly, getWeekKey(date), id)
        found == ExistingCheck(id, date) \o ConsecutiveCheck(staffLoad, id, date)
                   \o WeeklyCheck(weeklyShiftCount, id, date)
        hasConflict == found # << >>
        st2 == [st EXCEPT !.conflicts = @ \o found]
    IN DayWalk(IF MayAssign(hasConflict, st2.conflicts, id, date)
               THEN AssignDay(st2, id, date) ELSE st2,
               pool, dayShiftIndex + 1, dayShiftCount, date)

\* the comparator of remainingAfterDay.sort
EveningCompare(a, b, loads, patterns) ==
  IF patterns[a.id].eveningShift # patterns[b.id].eveningShift
  THEN patterns[a.id].eveningShift - patterns[b.id].eveningShift
  ELSE loads[a.id].totalShifts - loads[b.id].totalShifts

\* the evening-shift while loop
RECURSIVE EveningWalk(_, _, _, _, _)
EveningWalk(st, pool, eveningShiftIndex, eveningShiftCount, date) ==
  IF ~(st.n < eveningShiftCount /\ eveningShiftIndex <= Len(pool)) THEN st
  ELSE
    LET id == pool[eveningShiftIndex].id
        staffLoad == st.loads[id]
        weeklyShiftCount == WeeklyCount(st.weekly, getWeekKey(date), id)
        found == ConsecutiveCheck(staffLoad, id, date)
                   \o WeeklyCheck(weeklyShiftCount, id, date)
        hasConflict == found # << >>
        st2 == [st EXCEPT !.conflicts = @ \o found]
    IN EveningWalk(IF MayAssign(hasConflict, st2.conflicts, id, date)
                   THEN AssignEvening(st2, id, date) ELSE st2,
                   pool, eveningShiftIndex + 1, eveningShiftCount, date)

\* the comparator of remainingAfterEvening.sort
NightCompare(a, b, loads, patterns) ==
  IF patterns[a.id].nightShift # patterns[b.id].nightShift
  THEN patterns[a.id].nightShift - patterns[b.id].nightShift
  ELSE IF loads[a.id].nightShifts # loads[b.id].nightShifts
  THEN loads[a.id].nightShifts - loads[b.id].nightShifts
  ELSE loads[a.id].totalShifts - loads[b.id].totalShifts

\* mutant: the night walk never skips a candidate
DayToNightIgnored(staffLoad, date) == FALSE

\* the rest-period test of the night walk (day shift on the previous day)
DayToNight(staffLoad, date) ==
  /\ Truthy(staffLoad.lastShiftType)
  /\ Truthy(dayShiftId)
  /\ staffLoad.lastShiftType = dayShiftId
  /\ staffLoad.lastShiftDate = getPreviousDay(date)

\* the night-shift while loop
RECURSIVE NightWalk(_, _, _, _, _)
NightWalk(st, pool, nightShiftIndex, nightShiftCount, date) ==
  IF ~(st.n < nightShiftCount /\ nightShiftIndex <= Len(pool)) THEN st
  ELSE
    LET id == pool[nightShiftIndex].id
        staffLoad == st.loads[id]
        weeklyShiftCount == WeeklyCount(st.weekly, getWeekKey(date), id)
        found == ConsecutiveCheck(staffLoad, id, date)
                   \o WeeklyCheck(weeklyShiftCount, id, date)
        hasConflict == found # << >>
        st2 == [st EXCEPT !.conflicts = @ \o found]
    IN IF DayToNight(staffLoad, date)
       THEN NightWalk(st2, pool, nightShiftIndex + 1, nightShiftCount, date)
       ELSE NightWalk(IF MayAssign(hasConflict, st2.conflicts, id, date)
                      THEN AssignNight(st2, id, date) ELSE st2,
                      pool, nightShiftIndex + 1, nightShiftCount, date)

\* the comparators of preDutyStaff.sort and postDutyStaff.sort
PreDutyCompare(a, b, loads, patterns) ==
  IF patterns[a.id].preDuty # patterns[b.id].preDuty
  THEN patterns[a.id].preDuty - patterns[b.id].preDuty
  ELSE loads[a.id].totalShifts - loads[b.id].totalShifts

PostDutyCompare(a, b, loads, patterns) ==
  IF patterns[a.id].postDuty # patterns[b.id].postDuty
  THEN patterns[a.id].postDuty - patterns[b.id].postDuty
  ELSE loads[a.id].totalShifts - loads[b.id].totalShifts

\* the for loop over the first preDutyCount = min(length, 1) pre-duty candidates
PreDutyStep(st, preDutyStaff, date) ==
  IF Min2(Len(preDutyStaff), 1) < 1 THEN st
  ELSE LET id == preDutyStaff[1].id
           weeklyShiftCount == WeeklyCount(st.weekly, getWeekKey(date), id)
       IN IF weeklyShiftCount >= MAX_SHIFTS_PER_WEEK
          THEN [st EXCEPT !.conflicts =
                  Append(@, Conflict("exceeds_weekly_hours", id, date, "warning"))]
          ELSE AssignPreDuty(st, id, date)

PostDutyStep(st, postDutyStaff, date) ==
  IF Min2(Len(postDutyStaff), 1) < 1 THEN st
  ELSE LET id == postDutyStaff[1].id
           weeklyShiftCount == WeeklyCount(st.weekly, getWeekKey(date), id)
       IN IF weeklyShiftCount >= MAX_SHIFTS_PER_WEEK
          THEN [st EXCEPT !.conflicts =
                  Append(@, Conflict("exceeds_weekly_hours", id, date, "warning"))]
          ELSE AssignPostDuty(st, id, date)

\* the locals a phase reads and writes, as one record, and back
Locals(n) ==
  [loads |-> staffLoads, patterns |-> staffDutyPatterns, weekly |-> weeklySchedules,
   schedules |-> schedules, conflicts |-> conflicts, assigned |-> assignedShifts,
   n |-> n]

Store(st) ==
  /\ staffLoads' = st.loads
  /\ staffDutyPatterns' = st.patterns
  /\ weeklySchedules' = st.weekly
  /\ schedules' = st.schedules
  /\ conflicts' = st.conflicts
  /\ assignedShifts' = st.assigned

currentDate == dates[dateIdx]

\* mutant: the roster itself is sorted
StaffSortedInPlace(roster, sorted) == sorted

\* the roster as generateSchedule leaves it: staff.filter makes the copy that
\* availableStaff.sort then sorts in place
StaffAfterGenerate(roster, sorted) == roster

\* steps 1-4 of a date: pool, ranking, day shifts
DayPhase ==
  /\ pc = "day"
  /\ LET date == currentDate
         ranked == RankedPool(date, staffLoads, staffDutyPatterns, weeklySchedules)
         dayShiftCount == Max2(1, CeilDiv(Len(ranked), 3))
         st0 == [Locals(0) EXCEPT !.assigned = {}]
     IN /\ availableStaff' = ranked
        /\ staff' = StaffAfterGenerate(staff, ranked)
        /\ Store(DayWalk(st0, ranked, 1, dayShiftCount, date))
  /\ pc' = "evening"
  /\ UNCHANGED << genFrameButStaff, dates, dateIdx >>

\* step 5: evening shifts
EveningPhase ==
  /\ pc = "evening"
  /\ LET date == currentDate
         Cmp(a, b) == EveningCompare(a, b, staffLoads, staffDutyPatterns)
         remainingAfterDay == JsSort(Unassigned(availableStaff, assignedShifts), Cmp)
         eveningShiftCount == Max2(1, CeilDiv(Len(remainingAfterDay), 2))
     IN Store(EveningWalk(Locals(0), remainingAfterDay, 1, eveningShiftCount, date))
  /\ pc' = "night"
  /\ UNCHANGED << genFrame, dates, dateIdx, availableStaff >>

\* step 6: night shifts
NightPhase ==
  /\ pc = "night"
  /\ LET date == currentDate
         Cmp(a, b) == NightCompare(a, b, staffLoads, staffDutyPatterns)
         remainingAfterEvening == JsSort(Unassigned(availableStaff, assignedShifts), Cmp)
         nightShiftCount == Max2(1, CeilDiv(Len(remainingAfterEvening), 3))
     IN Store(NightWalk(Locals(0), remainingAfterEvening, 1, nightShiftCount, date))
  /\ pc' = "preDuty"
  /\ UNCHANGED << genFrame, dates, dateIdx, availableStaff >>

\* mutant: the gate of the pre- and post-duty phases is always open
InRangeAlways(d) == TRUE

\* dates.includes(d)
InRange(d) == \E i \in 1..Len(dates) : dates[i] = d

\* step 7: pre-duty, only when the next day is in the range
PreDutyPhase ==
  /\ pc = "preDuty"
  /\ LET date == currentDate
         Cmp(a, b) == PreDutyCompare(a, b, staffLoads, staffDutyPatterns)
         preDutyStaff == JsSort(Unassigned(availableStaff, assignedShifts), Cmp)
     IN IF InRange(date + 1)
        THEN Store(PreDutyStep(Locals(0), preDutyStaff, date))
        ELSE UNCHANGED << staffLoads, staffDutyPatterns, weeklySchedules, schedules,
                          conflicts, assignedShifts >>
  /\ pc' = "postDuty"
  /\ UNCHANGED << genFrame, dates, dateIdx, availableStaff >>

\* step 8: post-duty, only when the previous day is in the range; then the
\* forEach over the dates moves on, or generateSchedule returns
PostDutyPhase ==
  /\ pc = "postDuty"
  /\ LET date == currentDate
         Cmp(a, b) == PostDutyCompare(a, b, staffLoads, staffDutyPatterns)
         postDutyStaff == JsSort(Unassigned(availableStaff, assignedShifts), Cmp)
     IN IF InRange(date - 1)
        THEN Store(PostDutyStep(Locals(0), postDutyStaff, date))
        ELSE UNCHANGED << staffLoads, staffDutyPatterns, weeklySchedules, schedules,
                          conflicts, assignedShifts >>
  /\ IF dateIdx < Len(dates)
     THEN /\ dateIdx' = dateIdx + 1
          /\ pc' = "day"
     ELSE /\ dateIdx' = dateIdx
          /\ pc' = "done"
  /\ UNCHANGED << genFrame, dates, availableStaff >>

\* ------------------------------------------------- detectScheduleConflicts
\* mutant: the row's id is not compared with the checked entry's id
ExistingAssignmentAnyId(schedule, scheds) ==
  \E i \in 1..Len(scheds) :
    /\ scheds[i].staffId = schedule.staffId
    /\ scheds[i].date = schedule.date

\* schedules.find(s => s.staffId === schedule.staffId && s.date === schedule.date
\*                     && s.id !== schedule.id): is there such a row
ExistingAssignment(schedule, scheds) ==
  \E i \in 1..Len(scheds) :
    /\ scheds[i].staffId = schedule.staffId
    /\ scheds[i].date = schedule.date
    /\ scheds[i].id # schedule.id

\* schedules.filter(s => s.staffId === schedule.staffId).map(s => s.date).sort()
StaffDates(schedule, scheds) ==
  LET Mine(r) == r.staffId = schedule.staffId
      mine == SelectSeq(scheds, Mine)
      Cmp(a, b) == a - b
  IN JsSort([i \in 1..Len(mine) |-> mine[i].date], Cmp)

\* the loop over the sorted dates: the longest run of dates one day apart
RECURSIVE MaxConsecutive(_, _, _, _)
MaxConsecutive(ds, i, consecutiveCount, maxConsecutive) ==
  IF i > Len(ds) THEN maxConsecutive
  ELSE LET count == IF ds[i] - ds[i - 1] = 1 THEN consecutiveCount + 1 ELSE 1
       IN MaxConsecutive(ds, i + 1, count, Max2(maxConsecutive, count))

\* the conflicts detectScheduleConflicts returns (the weekly, rest-period and
\* specialization checks compute their conditions and push nothing)
detectScheduleConflicts(schedule, scheds, staffList, avail, shiftTs) ==
  LET inRoster == \E i \in 1..Len(staffList) : staffList[i].id = schedule.staffId
      ds == StaffDates(schedule, scheds)
      existing ==
        IF ExistingAssignment(schedule, scheds)
        THEN << Conflict("existing_assignment", schedule.staffId, schedule.date, "error") >>
        ELSE << >>
      consecutive ==
        IF Len(ds) > 0 /\ MaxConsecutive(ds, 2, 1, 1) > MAX_CONSECUTIVE_SHIFTS
        THEN << Conflict("consecutive_shifts", schedule.staffId, schedule.date, "warning") >>
        ELSE << >>
  IN IF ~inRoster THEN << >> ELSE existing \o consecutive

\* mutant: the schedule list itself is sorted by date
SchedulesSortedInPlace(scheds) ==
  LET Cmp(a, b) == a.date - b.date
  IN JsSort(scheds, Cmp)

\* the schedule list as a call of detectScheduleConflicts leaves it: the sort
\* works on the copy that filter and map made
SchedulesAfterDetect(scheds) == scheds

\* ------------------------------------------------- suggestAlternativeStaff
\* staffShiftCounts[id] || 0: the rows of the schedule list the member has
staffShiftCounts(scheds, id) ==
  Cardinality({i \in 1..Len(scheds) : scheds[i].staffId = id})

suggestAlternativeStaff(staffId, date, shiftTypeId, staffList, scheds, avail, unitSpecialization) ==
  LET assignedStaffIds ==
        {scheds[i].staffId : i \in {j \in 1..Len(scheds) : scheds[j].date = date}}
      Free(s) == s.id \notin assignedStaffIds
      unassigned == SelectSeq(staffList, Free)
      Specialized(s) == s.specialization = unitSpecialization
      specializedStaff == SelectSeq(unassigned, Specialized)
      pool == IF unitSpecialization # "" /\ Len(specializedStaff) > 0
              THEN specializedStaff ELSE unassigned
      Cmp(a, b) == staffShiftCounts(scheds, a.id) - staffShiftCounts(scheds, b.id)
  IN JsSort(pool, Cmp)

\* the staff list as suggestAlternativeStaff leaves it: staff.filter makes the
\* copy that availableStaff.sort then sorts in place
StaffAfterSuggest(staffList, sorted) == staffList

\* checkConflicts in the schedule editor: one call of detectScheduleConflicts,
\* and of suggestAlternativeStaff when it returned conflicts
Detect ==
  /\ pc = "editing"
  /\ detectCalls < MaxCalls
  /\ previousConflicts' = detectedConflicts
  /\ detectedConflicts' =
       detectScheduleConflicts(scheduleToCheck, existingSchedules, staff,
                               availabilities, shiftTypes)
  /\ alternativeStaff' =
       IF Len(detectedConflicts') > 0
       THEN suggestAlternativeStaff(scheduleToCheck.staffId, scheduleToCheck.date,
                                    scheduleToCheck.shiftTypeId, staff,
                                    existingSchedules, {}, scheduleToCheck.unit)
       ELSE << >>
  /\ existingSchedules' = SchedulesAfterDetect(existingSchedules)
  /\ staff' = IF Len(detectedConflicts') > 0
              THEN StaffAfterSuggest(staff, alternativeStaff') ELSE staff
  /\ detectCalls' = detectCalls + 1
  /\ UNCHANGED << shiftTypes, dutyTypes, availabilities, startDate, endDate,
                  unit, genLocals, scheduleToCheck, returned, serverVars >>

\* ------------------------------------------------------------ input space
\* the roster: staff n, n-1, .., 1 (the order of the list is not the order of
\* the ids, so no sort is the identity on it)
Roster(n) == [i \in 1..n |-> StaffRecord(n + 1 - i)]

\* what a call is given beyond roster and range: availability records, stored
\* schedule rows, a unit
InputSize(avail, existing, u) ==
  Cardinality(avail) + Len(existing) + (IF u = "" THEN 0 ELSE 1)

RECURSIVE SubsetsUpTo(_, _)
SubsetsUpTo(R, k) ==
  IF k = 0 THEN {{}}
  ELSE LET prev == SubsetsUpTo(R, k - 1)
       IN prev \cup {p \cup {a} : p \in prev, a \in R}

RECURSIVE SeqsUpTo(_, _)
SeqsUpTo(R, k) ==
  IF k = 0 THEN {<< >>}
  ELSE LET prev == SeqsUpTo(R, k - 1)
       IN prev \cup {Append(p, a) : p \in prev, a \in R}

AvailabilityRecords ==
  [staffId : 1..MaxStaff, date : 1..MaxAvailDate, isAvailable : BOOLEAN]

\* stored schedule rows: a working shift with duty type Duty, or a rest day
\* (null shift type) tagged Post-Duty
ExistingRows ==
  { [staffId |-> s, date |-> d, shiftTypeId |-> k[1], dutyTypeId |-> k[2], unit |-> ""] :
      s \in 1..MaxStaff, d \in 0..MaxExistingDate,
      k \in {<<1, 2>>, <<3, 2>>, <<NULL, 3>>} }

\* the store keeps one row per (staffId, date); row i has id i
OnePerStaffDate(rows) ==
  \A i, j \in 1..Len(rows) :
    (rows[i].staffId = rows[j].staffId /\ rows[i].date = rows[j].date) => i = j

WithIds(rows) ==
  [i \in 1..Len(rows) |->
     [id |-> i, staffId |-> rows[i].staffId, date |-> rows[i].date,
      shiftTypeId |-> rows[i].shiftTypeId, dutyTypeId |-> rows[i].dutyTypeId,
      unit |-> rows[i].unit]]

ExistingLists ==
  {WithIds(rows) : rows \in {r \in SeqsUpTo(ExistingRows, MaxInputs) : OnePerStaffDate(r)}}

NoSchedule ==
  [id |-> UNDEFINED, staffId |-> 0, date |-> NoDate, shiftTypeId |-> NULL,
   dutyTypeId |-> 0, unit |-> ""]

\* inputs of a generateSchedule call
Init ==
  /\ staff \in {Roster(n) : n \in 0..MaxStaff}
  /\ shiftTypes = ShiftCatalog
  /\ dutyTypes = DutyCatalog
  /\ availabilities \in SubsetsUpTo(AvailabilityRecords, MaxInputs)
  /\ startDate = 1
  /\ endDate \in 0..MaxDate
  /\ unit \in {"", "ICU"}
  /\ existingSchedules \in
       {e \in ExistingLists : InputSize(availabilities, e, unit) <= MaxInputs}
  /\ pc = "start"
  /\ dates = << >>
  /\ dateIdx = 1
  /\ staffLoads = << >>
  /\ staffDutyPatterns = << >>
  /\ weeklySchedules = << >>
  /\ schedules = << >>
  /\ conflicts = << >>
  /\ assignedShifts = {}
  /\ availableStaff = << >>
  /\ scheduleToCheck = NoSchedule
  /\ detectedConflicts = << >>
  /\ previousConflicts = << >>
  /\ detectCalls = 0
  /\ alternativeStaff = << >>
  /\ returned = << >>
  /\ ServerIdle

Next ==
  \/ Start
  \/ DayPhase
  \/ EveningPhase
  \/ NightPhase
  \/ PreDutyPhase
  \/ PostDutyPhase

Spec == Init /\ [][Next]_vars

\* ------------------------------------- generateSchedule on partial catalogs
\* a catalog with some of its entries missing: the sub-lists of the full one
RECURSIVE SubLists(_)
SubLists(s) ==
  IF s = << >> THEN {<< >>}
  ELSE LET rest == SubLists(Tail(s))
       IN rest \cup {<<Head(s)>> \o r : r \in rest}

\* inputs of a generateSchedule call on catalogs that may lack entries
InitCatalog ==
  /\ staff \in {Roster(n) : n \in 0..MaxStaff}
  /\ shiftTypes \in SubLists(ShiftCatalog)
  /\ dutyTypes \in SubLists(DutyCatalog)
  /\ availabilities = {}
  /\ startDate = 1
  /\ endDate \in 0..MaxCatalogDate
  /\ unit = ""
  /\ existingSchedules = << >>
  /\ pc = "start"
  /\ dates = << >>
  /\ dateIdx = 1
  /\ staffLoads = << >>
  /\ staffDutyPatterns = << >>
  /\ weeklySchedules = << >>
  /\ schedules = << >>
  /\ conflicts = << >>
  /\ assignedShifts = {}
  /\ availableStaff = << >>
  /\ scheduleToCheck = NoSchedule
  /\ detectedConflicts = << >>
  /\ previousConflicts = << >>
  /\ detectCalls = 0
  /\ alternativeStaff = << >>
  /\ returned = << >>
  /\ ServerIdle

SpecCatalog == InitCatalog /\ [][Next]_vars

\* --------------------------- generateSchedule with entries stored in the range
\* stored day shifts on dates of the range to generate
HistoryRows ==
  { [staffId |-> s, date |-> d, shiftTypeId |-> 1, dutyTypeId |-> 2, unit |-> ""] :
      s \in 1..MaxHistoryStaff, d \in 1..MaxDate }

InitHistory ==
  /\ staff \in {Roster(n) : n \in 1..MaxHistoryStaff}
  /\ shiftTypes = ShiftCatalog
  /\ dutyTypes = DutyCatalog
  /\ availabilities = {}
  /\ startDate = 1
  /\ endDate \in 0..MaxDate
  /\ unit = ""
  /\ existingSchedules \in
       {WithIds(rows) : rows \in {r \in SeqsUpTo(HistoryRows, MaxInputs) :
                                    OnePerStaffDate(r)}}
  /\ pc = "start"
  /\ dates = << >>
  /\ dateIdx = 1
  /\ staffLoads = << >>
  /\ staffDutyPatterns = << >>
  /\ weeklySchedules = << >>
  /\ schedules = << >>
  /\ conflicts = << >>
  /\ assignedShifts = {}
  /\ availableStaff = << >>
  /\ scheduleToCheck = NoSchedule
  /\ detectedConflicts = << >>
  /\ previousConflicts = << >>
  /\ detectCalls = 0
  /\ alternativeStaff = << >>
  /\ returned = << >>
  /\ ServerIdle

SpecHistory == InitHistory /\ [][Next]_vars

\* ------------------------------------------- input space of the editor check
\* rows of the schedule list the editor is given
DetRows ==
  { [staffId |-> s, date |-> d, shiftTypeId |-> k, dutyTypeId |-> 2, unit |-> ""] :
      s \in 1..2, d \in 1..MaxDetDate, k \in {NULL, 1, 3} }

\* staff 1 working the day shift on every date of a..b
RunRows(a, b) ==
  [i \in 1..(b - a + 1) |->
     [staffId |-> 1, date |-> a + i - 1, shiftTypeId |-> 1, dutyTypeId |-> 2,
      unit |-> ""]]

DetLists ==
  {WithIds(rows) : rows \in SeqsUpTo(DetRows, MaxDetRows)
                             \cup {RunRows(a, b) : a \in 1..2, b \in 1..MaxDate}}

\* the entry being checked: a new one (no id) or a stored one (with its id)
Candidates ==
  [id : {UNDEFINED, 1}, staffId : 1..2, date : 1..MaxDate, shiftTypeId : {NULL, 1, 3},
   dutyTypeId : {2}, unit : {""}]

InitDetect ==
  /\ staff \in {Roster(n) : n \in 0..MaxStaff}
  /\ shiftTypes = ShiftCatalog
  /\ dutyTypes = DutyCatalog
  /\ availabilities \in
       SubsetsUpTo([staffId : 1..2, date : 1..MaxAvailDate, isAvailable : BOOLEAN], 1)
  /\ startDate = 1
  /\ endDate = 0
  /\ unit = ""
  /\ existingSchedules \in DetLists
  /\ pc = "editing"
  /\ dates = << >>
  /\ dateIdx = 1
  /\ staffLoads = << >>
  /\ staffDutyPatterns = << >>
  /\ weeklySchedules = << >>
  /\ schedules = << >>
  /\ conflicts = << >>
  /\ assignedShifts = {}
  /\ availableStaff = << >>
  /\ scheduleToCheck \in Candidates
  /\ detectedConflicts = << >>
  /\ previousConflicts = << >>
  /\ detectCalls = 0
  /\ alternativeStaff = << >>
  /\ returned = << >>
  /\ ServerIdle

NextDetect ==
  \/ Detect

SpecDetect == InitDetect /\ [][NextDetect]_vars

\* ------------------------------------------ input space of the suggestions
\* the request: the member to replace, the date, the unit
Requests ==
  [id : {UNDEFINED}, staffId : 1..2, date : 1..MaxDate, shiftTypeId : {1},
   dutyTypeId : {2}, unit : {"", "ICU"}]

SuggestRows ==
  { [staffId |-> s, date |-> d, shiftTypeId |-> k, dutyTypeId |-> 2, unit |-> ""] :
      s \in 1..MaxStaff, d \in 1..MaxDetDate, k \in {NULL, 1} }

SuggestLists ==
  {WithIds(rows) : rows \in SeqsUpTo(SuggestRows, MaxDetRows)
                             \cup {RunRows(a, b) : a \in 1..2, b \in 1..MaxDate}}

InitSuggest ==
  /\ staff \in {Roster(n) : n \in 0..MaxStaff}
  /\ shiftTypes = ShiftCatalog
  /\ dutyTypes = DutyCatalog
  /\ availabilities = {}
  /\ startDate = 1
  /\ endDate = 0
  /\ unit = ""
  /\ existingSchedules \in SuggestLists
  /\ pc = "suggesting"
  /\ dates = << >>
  /\ dateIdx = 1
  /\ staffLoads = << >>
  /\ staffDutyPatterns = << >>
  /\ weeklySchedules = << >>
  /\ schedules = << >>
  /\ conflicts = << >>
  /\ assignedShifts = {}
  /\ availableStaff = << >>
  /\ scheduleToCheck \in Requests
  /\ detectedConflicts = << >>
  /\ previousConflicts = << >>
  /\ detectCalls = 0
  /\ alternativeStaff = << >>
  /\ returned = << >>
  /\ ServerIdle

\* one call of suggestAlternativeStaff
Suggest ==
  /\ pc = "suggesting"
  /\ alternativeStaff' =
       suggestAlternativeStaff(scheduleToCheck.staffId, scheduleToCheck.date,
                               scheduleToCheck.shiftTypeId, staff, existingSchedules,
                               availabilities, scheduleToCheck.unit)
  /\ staff' = StaffAfterSuggest(staff, alternativeStaff')
  /\ pc' = "suggested"
  /\ UNCHANGED << shiftTypes, dutyTypes, availabilities, startDate, endDate,
                  unit, existingSchedules, dates, dateIdx, staffLoads,
                  staffDutyPatterns, weeklySchedules, schedules, conflicts,
                  assignedShifts, availableStaff, scheduleToCheck, detectedConflicts,
                  previousConflicts, detectCalls, returned, serverVars >>

NextSuggest ==
  \/ Suggest

SpecSuggest == InitSuggest /\ [][NextSuggest]_vars

\* ================================================================= claims
HasEntry(s, d) ==
  \E i \in 1..Len(schedules) : schedules[i].staffId = s /\ schedules[i].date = d

EntriesOn(d) == {i \in 1..Len(schedules) : schedules[i].date = d}

Unavailable(s, d) ==
  \E a \in availabilities : a.staffId = s /\ a.date = d /\ ~a.isAvailable

HasConflict(cs, type, s, d, severity) ==
  \E i \in 1..Len(cs) : cs[i] = Conflict(type, s, d, severity)

\* C1: a roster member with an availability record (s, d, isAvailable = false)
\* has no generated entry for (s, d), whatever else the call is given.
C1_Exclusion ==
  \A a \in availabilities : (~a.isAvailable) => ~HasEntry(a.staffId, a.date)

\* a finished run with history in which an unavailable roster member was left
\* out on a date of the range on which others were assigned
C1_Witness ==
  /\ pc = "done"
  /\ existingSchedules # << >>
  /\ \E a \in availabilities :
       /\ ~a.isAvailable
       /\ a.staffId \in StaffIds
       /\ InRange(a.date)
       /\ EntriesOn(a.date) # {}
       /\ \E d \in SeqToSet(dates) : HasEntry(a.staffId, d)

\* C2: the generated entries never hold a Day Shift entry (s, d) together with
\* a Night Shift entry (s, d + 1).
C2_NoDayToNight ==
  \A i, j \in 1..Len(schedules) :
    ( /\ schedules[i].staffId = schedules[j].staffId
      /\ schedules[j].date = schedules[i].date + 1
      /\ schedules[i].shiftTypeId = dayShiftId )
    => schedules[j].shiftTypeId # nightShiftId

\* the night walk has just gone through its whole pool and passed over a member
\* whose generated entry of the previous day is a Day Shift entry
C2_Witness ==
  /\ pc = "preDuty"
  /\ \A i \in EntriesOn(currentDate) : schedules[i].shiftTypeId # nightShiftId
  /\ \E k \in 1..Len(availableStaff) :
       LET id == availableStaff[k].id
       IN /\ id \notin assignedShifts
          /\ DayToNight(staffLoads[id], currentDate)
          /\ \E i \in EntriesOn(currentDate - 1) :
               schedules[i].staffId = id /\ schedules[i].shiftTypeId = dayShiftId

\* C3: the generated entries hold at most one entry per (staffId, date), all
\* five kinds of entry counted together.
C3_AtMostOnePerStaffDate ==
  \A i, j \in 1..Len(schedules) :
    (schedules[i].staffId = schedules[j].staffId /\ schedules[i].date = schedules[j].date)
    => i = j

\* the ranking keys before the id, on the state a date starts from
TiedBeforeId(a, b, date) ==
  LET aLoad == staffLoads[a.id]
      bLoad == staffLoads[b.id]
      aPattern == staffDutyPatterns[a.id]
      bPattern == staffDutyPatterns[b.id]
  IN /\ aLoad.totalShifts = bLoad.totalShifts
     /\ WeeklyCount(weeklySchedules, getWeekKey(date), a.id)
          = WeeklyCount(weeklySchedules, getWeekKey(date), b.id)
     /\ aPattern.duty + aPattern.preDuty + aPattern.postDuty
          = bPattern.duty + bPattern.preDuty + bPattern.postDuty
     /\ aPattern.dayShift = bPattern.dayShift
     /\ aPattern.eveningShift = bPattern.eveningShift
     /\ aPattern.nightShift = bPattern.nightShift
     /\ aLoad.restDays = bLoad.restDays
     /\ (unit # "" => ((a.specialization = unit) <=> (b.specialization = unit)))

AllAvailable(date) == \A s \in StaffIds : ~Unavailable(s, date)

LowestIds(k) == {s \in StaffIds : Cardinality({t \in StaffIds : t < s}) < k}

FirstDateFromScratch ==
  dateIdx = 1 /\ existingSchedules = << >> /\ AllAvailable(currentDate)

\* C4 as stated: on the first date of a run with no existing schedules and
\* everyone available, the day-shift assignees are the ceil(n/3) lowest ids.
C4_LowestIdsOnFirstDate ==
  (pc = "evening" /\ FirstDateFromScratch)
  => assignedShifts = LowestIds(CeilDiv(Len(staff), 3))

\* C4, amended: of two pool members that tie on every key before the id, the
\* one with the lower id is placed earlier in the ranked pool, and the other is
\* given a day shift only if the first was given one or already has an entry
\* that date; on the first date of a run with no existing schedules, everyone
\* available and no unit, the day-shift assignees are the ceil(n/3) lowest ids.
C4_TieBreak ==
  [][DayPhase =>
       /\ \A i, j \in 1..Len(availableStaff') :
            LET a == availableStaff'[i]
                b == availableStaff'[j]
            IN (a.id < b.id /\ TiedBeforeId(a, b, currentDate))
               => /\ i < j
                  /\ b.id \in assignedShifts'
                     => \/ a.id \in assignedShifts'
                        \/ ExistingCheck(a.id, currentDate) # << >>
       /\ (FirstDateFromScratch /\ unit = "")
          => assignedShifts' = LowestIds(CeilDiv(Len(staff), 3))
  ]_vars

\* the day phase of a first date from scratch, no unit, gave the day shift to
\* two of four members that all tied: the two lowest ids
C4_Witness ==
  /\ pc = "evening"
  /\ FirstDateFromScratch
  /\ unit = ""
  /\ Len(staff) = 4
  /\ assignedShifts = {1, 2}

BasicWeek ==
  /\ pc = "done"
  /\ Len(staff) = 3
  /\ existingSchedules = << >>
  /\ \A d \in SeqToSet(dates) : AllAvailable(d)
  /\ Len(dates) = 7

Worked(s, d) ==
  \E i \in 1..Len(schedules) :
    schedules[i].staffId = s /\ schedules[i].date = d /\ Truthy(schedules[i].shiftTypeId)

\* s has a working shift on each of the n dates d, d + 1, .., d + n - 1
WorkedRun(s, d, n) == \A k \in 0..(n - 1) : Worked(s, d + k)

\* C6 as stated: 3 staff, all available, no existing schedules, 7 dates: 21
\* entries, 3 per date, and nobody works more than 5 consecutive dates.
C6_BasicWeek ==
  BasicWeek =>
    /\ Len(schedules) = 21
    /\ \A d \in SeqToSet(dates) : Cardinality(EntriesOn(d)) = 3
    /\ \A s \in StaffIds : \A d \in SeqToSet(dates) :
         ~WorkedRun(s, d, MAX_CONSECUTIVE_SHIFTS + 1)

\* C6, amended: 21 entries, 3 per date, one per member and date; so every
\* member works all 7 consecutive dates, and the streak is only reported, as
\* a consecutive_shifts warning for every member on the 6th and 7th date.
C6_BasicWeekAllWork ==
  BasicWeek =>
    /\ Len(schedules) = 21
    /\ \A d \in SeqToSet(dates) : Cardinality(EntriesOn(d)) = 3
    /\ \A s \in StaffIds : WorkedRun(s, startDate, 7)
    /\ \A s \in StaffIds : \A d \in SeqToSet(dates) :
         HasConflict(conflicts, "consecutive_shifts", s, d, "warning")
           <=> d >= startDate + MAX_CONSECUTIVE_SHIFTS

\* the basic week has run to its end
C6_Witness ==
  /\ BasicWeek
  /\ unit = ""
  /\ availabilities = {}
  /\ Len(schedules) = 21

\* C7: when a date has been processed, every roster member without an entry
\* for that date has a streak of 0 and a rest-day counter one higher than
\* before the date.
C7_RestTracking ==
  [][PostDutyPhase =>
       \A s \in StaffIds :
         (~\E i \in 1..Len(schedules') :
              schedules'[i].staffId = s /\ schedules'[i].date = currentDate)
         => /\ staffLoads'[s].consecutiveShifts = 0
            /\ staffLoads'[s].restDays = staffLoads[s].restDays + 1
  ]_vars

InRoster(id) == \E i \in 1..Len(staff) : staff[i].id = id

\* C8: for a checked entry whose staff member is in the roster, the result
\* holds an existing_assignment error (and then exactly one) if and only if
\* the schedule list has a row with the same staffId and date and another id.
C8_ExistingAssignment ==
  (detectCalls >= 1 /\ InRoster(scheduleToCheck.staffId))
  => LET hits == {i \in 1..Len(detectedConflicts) :
                    detectedConflicts[i].type = "existing_assignment"}
         other == \E i \in 1..Len(existingSchedules) :
                    /\ existingSchedules[i].staffId = scheduleToCheck.staffId
                    /\ existingSchedules[i].date = scheduleToCheck.date
                    /\ existingSchedules[i].id # scheduleToCheck.id
     IN /\ other <=> hits # {}
        /\ Cardinality(hits) <= 1
        /\ \A i \in hits :
             detectedConflicts[i] =
               Conflict("existing_assignment", scheduleToCheck.staffId,
                        scheduleToCheck.date, "error")

\* a stored entry was checked against a list that holds it and, for the same
\* member and date, nothing else: no conflict; (the list has other rows)
C8_Witness ==
  /\ detectCalls >= 1
  /\ InRoster(scheduleToCheck.staffId)
  /\ scheduleToCheck.id # UNDEFINED
  /\ Len(existingSchedules) >= 2
  /\ \E i \in 1..Len(existingSchedules) :
       /\ existingSchedules[i].id = scheduleToCheck.id
       /\ existingSchedules[i].staffId = scheduleToCheck.staffId
       /\ existingSchedules[i].date = scheduleToCheck.date
  /\ detectedConflicts = << >>

\* C9: the result holds an unavailable_staff error whenever the availability
\* input has a record (staffId, date, isAvailable = false) of the checked entry.
C9_UnavailableDetected ==
  ( /\ detectCalls >= 1
    /\ InRoster(scheduleToCheck.staffId)
    /\ Unavailable(scheduleToCheck.staffId, scheduleToCheck.date) )
  => HasConflict(detectedConflicts, "unavailable_staff", scheduleToCheck.staffId,
                 scheduleToCheck.date, "error")

ShiftOnDayBefore(name) ==
  \E i \in 1..Len(existingSchedules) :
    /\ existingSchedules[i].staffId = scheduleToCheck.staffId
    /\ existingSchedules[i].date = scheduleToCheck.date - 1
    /\ Truthy(existingSchedules[i].shiftTypeId)
    /\ existingSchedules[i].shiftTypeId = FindIdByName(shiftTypes, {name})

\* C10: the result holds a rest_period_violation error whenever the member's
\* entry of the day before is a Day Shift and the checked entry a Night Shift,
\* and whenever it is a Night Shift and the checked entry a Day Shift.
C10_RestPeriodDetected ==
  ( /\ detectCalls >= 1
    /\ InRoster(scheduleToCheck.staffId)
    /\ \/ /\ ShiftOnDayBefore("Day Shift")
          /\ scheduleToCheck.shiftTypeId = FindIdByName(shiftTypes, {"Night Shift"})
       \/ /\ ShiftOnDayBefore("Night Shift")
          /\ scheduleToCheck.shiftTypeId = FindIdByName(shiftTypes, {"Day Shift"}) )
  => HasConflict(detectedConflicts, "rest_period_violation", scheduleToCheck.staffId,
                 scheduleToCheck.date, "error")

\* the dates the checked entry's staff member works: the checked entry's date
\* and the dates of the member's rows with a shift type
WorkedWithCandidate ==
  {scheduleToCheck.date}
    \cup {existingSchedules[i].date : i \in
            {j \in 1..Len(existingSchedules) :
               /\ existingSchedules[j].staffId = scheduleToCheck.staffId
               /\ Truthy(existingSchedules[j].shiftTypeId)}}

\* the length of the run of contiguous dates of W that contains d
RunAround(W, d) ==
  Cardinality({e \in W : \A x \in (Min2(d, e))..(Max2(d, e)) : x \in W})

\* C11: the result holds a consecutive_shifts warning if and only if the run
\* of contiguous worked days around the checked entry's date, the checked entry
\* included, is longer than 5 days.
C11_StreakAroundCandidate ==
  (detectCalls >= 1 /\ InRoster(scheduleToCheck.staffId))
  => ( HasConflict(detectedConflicts, "consecutive_shifts", scheduleToCheck.staffId,
                   scheduleToCheck.date, "warning")
       <=> RunAround(WorkedWithCandidate, scheduleToCheck.date) > MAX_CONSECUTIVE_SHIFTS )

\* the ids suggestAlternativeStaff returned
SuggestedIds == {alternativeStaff[i].id : i \in 1..Len(alternativeStaff)}

HasRowOn(id, d) ==
  \E i \in 1..Len(existingSchedules) :
    existingSchedules[i].staffId = id /\ existingSchedules[i].date = d

\* C12: the suggestions never hold the member being replaced, and never a
\* member with a row on the requested date.
C12_SuggestionExclusions ==
  pc = "suggested"
  => \A id \in SuggestedIds :
       /\ id # scheduleToCheck.staffId
       /\ ~HasRowOn(id, scheduleToCheck.date)

\* the dates a member works when given a shift on d as well
WorkedWith(id, d) ==
  {d} \cup {existingSchedules[i].date : i \in
              {j \in 1..Len(existingSchedules) :
                 /\ existingSchedules[j].staffId = id
                 /\ Truthy(existingSchedules[j].shiftTypeId)}}

NotExcluded ==
  {id \in StaffIds :
     /\ id # scheduleToCheck.staffId
     /\ ~HasRowOn(id, scheduleToCheck.date)
     /\ RunAround(WorkedWith(id, scheduleToCheck.date), scheduleToCheck.date)
          <= MAX_CONSECUTIVE_SHIFTS}

\* C14: the suggestions hold every roster member that is not excluded, members
\* of the unit's specialization before all others when a unit is given, and
\* within each group in non-decreasing order of their rows in the schedule list.
C14_SuggestionRanking ==
  pc = "suggested"
  => /\ NotExcluded \subseteq SuggestedIds
     /\ \A i, j \in 1..Len(alternativeStaff) :
          LET a == alternativeStaff[i]
              b == alternativeStaff[j]
              aMatch == a.specialization = scheduleToCheck.unit
              bMatch == b.specialization = scheduleToCheck.unit
          IN i < j =>
               /\ scheduleToCheck.unit # "" => (bMatch => aMatch)
               /\ (scheduleToCheck.unit = "" \/ aMatch = bMatch)
                  => staffShiftCounts(existingSchedules, a.id)
                       <= staffShiftCounts(existingSchedules, b.id)

\* the conflicts a phase pushed for member s
PushedFor(s) ==
  {i \in (Len(conflicts) + 1)..Len(conflicts') : conflicts'[i].staffId = s}

OnlyWarningsFor(s) ==
  /\ PushedFor(s) # {}
  /\ \A i \in PushedFor(s) : conflicts'[i].severity = "warning"

\* C15: in the day, evening and night phases a member reached by the walk for
\* whom the phase's checks raise only warnings is assigned the slot, whatever
\* was recorded for the member earlier on that date.
C15_WarningsNeverBlock ==
  [][ /\ DayPhase => \A s \in StaffIds : OnlyWarningsFor(s) => s \in assignedShifts'
      /\ EveningPhase => \A s \in StaffIds : OnlyWarningsFor(s) => s \in assignedShifts'
      /\ NightPhase =>
           \A s \in StaffIds :
             (OnlyWarningsFor(s) /\ ~DayToNight(staffLoads[s], currentDate))
             => s \in assignedShifts'
  ]_vars

\* s has a Day Shift entry on d, generated or stored
HadDayShift(s, d) ==
  \/ \E i \in 1..Len(schedules) :
       /\ schedules[i].staffId = s
       /\ schedules[i].date = d
       /\ schedules[i].shiftTypeId = dayShiftId
  \/ \E i \in 1..Len(existingSchedules) :
       /\ existingSchedules[i].staffId = s
       /\ existingSchedules[i].date = d
       /\ existingSchedules[i].shiftTypeId = dayShiftId

\* the number of members of pool that satisfy Free
CountFree(pool, Free(_)) == Cardinality({k \in 1..Len(pool) : Free(pool[k].id)})

\* the entries a phase emitted
Emitted == SubSeq(schedules', Len(schedules) + 1, Len(schedules'))

EmittedAre(shiftId) ==
  \A i \in 1..Len(Emitted) :
    /\ Emitted[i].shiftTypeId = shiftId
    /\ Emitted[i].dutyTypeId = dutyId
    /\ Emitted[i].date = currentDate

\* C17: on every date the day, evening and night phases emit min(target, free)
\* Duty entries, where the targets are max(1, ceil(P/3)), max(1, ceil(R1/2)) and
\* max(1, ceil(R2/3)) and free counts the members of the phase's pool that are
\* not blocked (an existing entry that date for the day phase, a day shift the
\* day before for the night phase, nobody for the evening phase).
C17_Quotas ==
  [][ /\ DayPhase =>
           LET P == Len(availableStaff')
               NotStored(s) == ExistingCheck(s, currentDate) = << >>
           IN /\ Len(Emitted) = Min2(Max2(1, CeilDiv(P, 3)),
                                     CountFree(availableStaff', NotStored))
              /\ EmittedAre(dayShiftId)
      /\ EveningPhase =>
           LET R1 == Len(Unassigned(availableStaff, assignedShifts))
           IN /\ Len(Emitted) = Min2(Max2(1, CeilDiv(R1, 2)), R1)
              /\ EmittedAre(eveningShiftId)
      /\ NightPhase =>
           LET pool == Unassigned(availableStaff, assignedShifts)
               R2 == Len(pool)
               Rested(s) == ~HadDayShift(s, currentDate - 1)
           IN /\ Len(Emitted) = Min2(Max2(1, CeilDiv(R2, 3)), CountFree(pool, Rested))
              /\ EmittedAre(nightShiftId)
  ]_vars

HasName(catalog, name) == \E i \in 1..Len(catalog) : catalog[i].name = name

\* the id the code looks up for a catalog name: that of the entry, if any
IdOrElse(catalog, names, default) ==
  IF \E i \in 1..Len(catalog) : catalog[i].name \in names
  THEN (CHOOSE e \in SeqToSet(catalog) : e.name \in names).id
  ELSE default

\* the entries generateSchedule can emit for a shift slot and a duty category
WellFormedEntry(e) ==
  /\ e.staffId \in StaffIds
  /\ InRange(e.date)
  /\ e.unit = unit
  /\ e.dutyTypeId \in {IdOrElse(dutyTypes, {"Duty"}, 0),
                       IdOrElse(dutyTypes, {"Pre-Duty"}, 0),
                       IdOrElse(dutyTypes, {"Post-Duty"}, 0)}
  /\ e.shiftTypeId \in {IdOrElse(shiftTypes, {"Day Shift"}, UNDEFINED),
                        IdOrElse(shiftTypes, {"Evening Shift", "Mid Shift"}, UNDEFINED),
                        IdOrElse(shiftTypes, {"Night Shift"}, UNDEFINED)}

\* every entry carries the id of the catalog entry of its category, 0 for a
\* duty type that is missing and undefined for a shift type that is missing,
\* and entries of every slot are still emitted
DegradedEntries ==
  /\ \A i \in 1..Len(schedules) : WellFormedEntry(schedules[i])
  /\ (~HasName(dutyTypes, "Duty") /\ ~HasName(dutyTypes, "Pre-Duty")
        /\ ~HasName(dutyTypes, "Post-Duty"))
     => \A i \in 1..Len(schedules) : schedules[i].dutyTypeId = 0
  /\ shiftTypes = << >> => \A i \in 1..Len(schedules) : schedules[i].shiftTypeId = UNDEFINED
  /\ (pc \in {"evening", "night", "preDuty", "postDuty"} /\ Len(staff) > 0)
     => \E i \in EntriesOn(currentDate) : schedules[i].shiftTypeId = dayShiftId
  /\ (pc = "done" /\ Len(staff) > 0) => \A d \in SeqToSet(dates) : EntriesOn(d) # {}

\* the entries a phase emitted carry the catalog ids of these names, with
\* undefined for a missing shift type and 0 for a missing duty type
EmittedCarry(shiftNames, dutyNames) ==
  \A i \in 1..Len(Emitted) :
    /\ Emitted[i].shiftTypeId = IdOrElse(shiftTypes, shiftNames, UNDEFINED)
    /\ Emitted[i].dutyTypeId = IdOrElse(dutyTypes, dutyNames, 0)

\* no step dereferences a missing record: while the dates are processed the
\* current date exists and every roster member has its load and pattern records
NoFailure ==
  pc \in {"day", "evening", "night", "preDuty", "postDuty"}
  => /\ dateIdx \in 1..Len(dates)
     /\ DOMAIN staffLoads = StaffIds
     /\ DOMAIN staffDutyPatterns = StaffIds
     /\ \A i \in 1..Len(availableStaff) : availableStaff[i].id \in StaffIds

\* C16: whatever the roster and the catalogs, generateSchedule never fails,
\* and every entry it emits carries the id of the catalog entry of its
\* category, 0 for a missing duty type and undefined for a missing shift type,
\* while the rest of the algorithm proceeds.
C16_GracefulDegradation ==
  /\ [](NoFailure /\ DegradedEntries)
  /\ [][ /\ DayPhase => EmittedCarry({"Day Shift"}, {"Duty"})
         /\ EveningPhase => EmittedCarry({"Evening Shift", "Mid Shift"}, {"Duty"})
         /\ NightPhase => EmittedCarry({"Night Shift"}, {"Duty"})
         /\ PreDutyPhase => EmittedCarry({"Day Shift"}, {"Pre-Duty"})
         /\ PostDutyPhase => EmittedCarry({"Day Shift"}, {"Post-Duty"}) ]_vars

\* a run on empty catalogs has returned entries of all five kinds' phases:
\* every entry has duty type 0 and an undefined shift type
C16_Witness ==
  /\ pc = "done"
  /\ shiftTypes = << >>
  /\ dutyTypes = << >>
  /\ Len(staff) = MaxStaff
  /\ Len(dates) = MaxCatalogDate
  /\ Len(schedules) > Len(staff) * 2
  /\ \A i \in 1..Len(schedules) :
       schedules[i].dutyTypeId = 0 /\ schedules[i].shiftTypeId = UNDEFINED

\* the generated entries of a duty category
EntriesOfDuty(id) == {i \in 1..Len(schedules) : schedules[i].dutyTypeId = id}

\* C18: a Pre-Duty entry is emitted on date d only if d+1 is inside the
\* generation range and a Post-Duty entry only if d-1 is inside it; so the last
\* date has no Pre-Duty entry, the first date has no Post-Duty entry and a
\* single-day range has neither.
C18_DutyGating ==
  /\ \A i \in EntriesOfDuty(preDutyId) :
       /\ startDate <= schedules[i].date + 1
       /\ schedules[i].date + 1 <= endDate
       /\ schedules[i].date # endDate
  /\ \A i \in EntriesOfDuty(postDutyId) :
       /\ startDate <= schedules[i].date - 1
       /\ schedules[i].date - 1 <= endDate
       /\ schedules[i].date # startDate
  /\ startDate = endDate => EntriesOfDuty(preDutyId) \cup EntriesOfDuty(postDutyId) = {}

\* a returned run over three dates or more with Pre-Duty entries on every
\* date but the last and Post-Duty entries on every date but the first
C18_Witness ==
  /\ pc = "done"
  /\ endDate >= startDate + 2
  /\ \A d \in startDate..(endDate - 1) :
       \E i \in EntriesOfDuty(preDutyId) : schedules[i].date = d
  /\ \A d \in (startDate + 1)..endDate :
       \E i \in EntriesOfDuty(postDutyId) : schedules[i].date = d
  /\ \E i \in EntriesOn(endDate) : schedules[i].dutyTypeId = dutyId

\* ------------------- generateSchedule on a large roster with a loaded member
\* k stored Duty day shifts of member s on consecutive dates from first on
RowsFrom(s, k, first) ==
  [i \in 1..k |->
     [staffId |-> s, date |-> first + i - 1, shiftTypeId |-> 1, dutyTypeId |-> 2,
      unit |-> ""]]

\* a roster of up to MaxPreDutyStaff members; one member has up to
\* MAX_SHIFTS_PER_WEEK stored shifts in the week of the start date (from
\* Tuesday 2024-01-02 on), another has none or MaxOldRows stored shifts in the
\* week before (from Sunday 2023-12-24 on)
InitPreDuty ==
  /\ staff \in {Roster(n) : n \in 1..MaxPreDutyStaff}
  /\ shiftTypes = ShiftCatalog
  /\ dutyTypes = DutyCatalog
  /\ availabilities = {}
  /\ startDate = 1
  /\ endDate \in 0..2
  /\ unit = ""
  /\ existingSchedules \in
       {WithIds(RowsFrom(a, k, 2) \o RowsFrom(b, m, -7)) :
          a \in StaffIds, k \in 0..MAX_SHIFTS_PER_WEEK,
          b \in StaffIds, m \in {0, MaxOldRows}}
  /\ pc = "start"
  /\ dates = << >>
  /\ dateIdx = 1
  /\ staffLoads = << >>
  /\ staffDutyPatterns = << >>
  /\ weeklySchedules = << >>
  /\ schedules = << >>
  /\ conflicts = << >>
  /\ assignedShifts = {}
  /\ availableStaff = << >>
  /\ scheduleToCheck = NoSchedule
  /\ detectedConflicts = << >>
  /\ previousConflicts = << >>
  /\ detectCalls = 0
  /\ alternativeStaff = << >>
  /\ returned = << >>
  /\ ServerIdle

SpecPreDuty == InitPreDuty /\ [][Next]_vars

\* the pre-duty candidates of the current date in ranked order, and those of
\* them with fewer than MAX_SHIFTS_PER_WEEK entries in the date's week
PreDutyRanked ==
  LET Cmp(a, b) == PreDutyCompare(a, b, staffLoads, staffDutyPatterns)
  IN JsSort(Unassigned(availableStaff, assignedShifts), Cmp)

PreDutyBelowCap ==
  LET Below(s) ==
        WeeklyCount(weeklySchedules, getWeekKey(currentDate), s.id) < MAX_SHIFTS_PER_WEEK
  IN SelectSeq(PreDutyRanked, Below)

\* C19: on a date whose next day is in the range, if some pool member not
\* consumed by the day, evening and night phases has fewer than 5 entries in
\* the date's week, the pre-duty phase emits exactly one entry, Pre-Duty with
\* the Day Shift type, for the first-ranked member among those below the cap.
C19_PreDutyExactlyOne ==
  [][ (PreDutyPhase /\ InRange(currentDate + 1) /\ Len(PreDutyBelowCap) > 0)
      => /\ Len(Emitted) = 1
         /\ Emitted[1].staffId = PreDutyBelowCap[1].id
         /\ Emitted[1].date = currentDate
         /\ Emitted[1].shiftTypeId = dayShiftId
         /\ Emitted[1].dutyTypeId = preDutyId
  ]_vars

\* the stored entries of member s with a working shift, and those in a week
WorkedRows(s) ==
  {i \in 1..Len(existingSchedules) :
     existingSchedules[i].staffId = s /\ Truthy(existingSchedules[i].shiftTypeId)}

RowsInWeek(s, weekKey) ==
  {i \in 1..Len(existingSchedules) :
     /\ existingSchedules[i].staffId = s
     /\ getWeekKey(existingSchedules[i].date) = weekKey}

\* before the first date the counters are those of the stored entries of the
\* roster members
SeededCounters ==
  (pc = "day" /\ dateIdx = 1)
  => /\ DOMAIN staffLoads = StaffIds
     /\ \A s \in StaffIds :
          /\ staffLoads[s].totalShifts = Cardinality(WorkedRows(s))
          /\ \A d \in SeqToSet(dates) \cup {existingSchedules[i].date :
                                             i \in 1..Len(existingSchedules)} :
               WeeklyCount(weeklySchedules, getWeekKey(d), s)
                 = Cardinality(RowsInWeek(s, getWeekKey(d)))
     /\ \A k \in DOMAIN weeklySchedules : k[2] \in StaffIds

\* the position of member s in the ranked pool of the day phase
RankOf(s) == CHOOSE i \in 1..Len(availableStaff') : availableStaff'[i].id = s

\* C20: the total-shift and weekly counters are seeded from existingSchedules
\* before the first date, entries of staff outside the roster being ignored,
\* and on the first date an available member with strictly fewer stored
\* working-shift entries is ranked ahead of any available member with more and
\* is offered the day shift first: the other gets a day shift only if this one
\* got one or was turned down with a conflict.
C20_HistorySeedsRanking ==
  /\ []SeededCounters
  /\ [][ (DayPhase /\ dateIdx = 1)
         => \A a, b \in {availableStaff'[i].id : i \in 1..Len(availableStaff')} :
              Cardinality(WorkedRows(a)) < Cardinality(WorkedRows(b))
              => /\ RankOf(a) < RankOf(b)
                 /\ b \in assignedShifts' => (a \in assignedShifts' \/ PushedFor(a) # {})
       ]_vars

\* the day phase of the first date has given the day shift to a member with
\* no stored shift and a higher id, ahead of a lower id with a stored shift,
\* while a stored entry of a member outside the roster was ignored
C20_Witness ==
  /\ pc = "evening"
  /\ dateIdx = 1
  /\ \E i \in 1..Len(existingSchedules) : existingSchedules[i].staffId \notin StaffIds
  /\ \E a, b \in StaffIds :
       /\ a > b
       /\ WorkedRows(a) = {}
       /\ WorkedRows(b) # {}
       /\ a \in assignedShifts
       /\ b \notin assignedShifts
       /\ b \notin unavailableStaffIds(currentDate)
       /\ \A i \in 1..Len(conflicts) : conflicts[i].staffId # b

\* ------------------------------ several calls of the scheduling core in a row
\* generateSchedule returns: the caller keeps the result with the arguments it
\* passed, and calls again with the same or another date range and unit
ReturnCall ==
  /\ pc = "done"
  /\ Len(returned) < MaxRuns
  /\ returned' = Append(returned, [inputs |-> genInputs, schedules |-> schedules,
                                   conflicts |-> conflicts])
  /\ endDate' \in 1..MaxCallDate
  /\ unit' \in {"", "ICU"}
  /\ pc' = "start"
  /\ UNCHANGED << staff, shiftTypes, dutyTypes, availabilities, startDate,
                  existingSchedules, dates, dateIdx, staffLoads, staffDutyPatterns,
                  weeklySchedules, schedules, conflicts, assignedShifts,
                  availableStaff, detVars, serverVars >>

\* between two generateSchedule calls the editor checks an entry: one call of
\* detectScheduleConflicts and, on a conflict, of suggestAlternativeStaff
CheckBetweenCalls ==
  /\ pc = "start"
  /\ returned # << >>
  /\ detectCalls < 1
  /\ \E r \in [id : {UNDEFINED}, staffId : 1..2, date : 1..MaxCallDate,
               shiftTypeId : {1}, dutyTypeId : {2}, unit : {"", "ICU"}] :
       /\ scheduleToCheck' = r
       /\ detectedConflicts' =
            detectScheduleConflicts(r, existingSchedules, staff, {}, shiftTypes)
       /\ alternativeStaff' =
            IF Len(detectedConflicts') > 0
            THEN suggestAlternativeStaff(r.staffId, r.date, r.shiftTypeId, staff,
                                         existingSchedules, {}, r.unit)
            ELSE << >>
  /\ previousConflicts' = detectedConflicts
  /\ existingSchedules' = SchedulesAfterDetect(existingSchedules)
  /\ staff' = IF Len(detectedConflicts') > 0
              THEN StaffAfterSuggest(staff, alternativeStaff') ELSE staff
  /\ detectCalls' = detectCalls + 1
  /\ UNCHANGED << shiftTypes, dutyTypes, availabilities, startDate, endDate,
                  unit, genLocals, returned, serverVars >>

\* a stored Day Shift of staff 1 or 2 on the first date
CallRows ==
  { [staffId |-> s, date |-> 1, shiftTypeId |-> 1, dutyTypeId |-> 2, unit |-> ""] :
      s \in 1..2 }

InitCalls ==
  /\ staff \in {Roster(n) : n \in 0..MaxCallStaff}
  /\ shiftTypes = ShiftCatalog
  /\ dutyTypes = DutyCatalog
  /\ availabilities = {}
  /\ startDate = 1
  /\ endDate \in 0..MaxCallDate
  /\ unit \in {"", "ICU"}
  /\ existingSchedules \in
       {WithIds(rows) : rows \in {r \in SeqsUpTo(CallRows, 2) : OnePerStaffDate(r)}}
  /\ pc = "start"
  /\ dates = << >>
  /\ dateIdx = 1
  /\ staffLoads = << >>
  /\ staffDutyPatterns = << >>
  /\ weeklySchedules = << >>
  /\ schedules = << >>
  /\ conflicts = << >>
  /\ assignedShifts = {}
  /\ availableStaff = << >>
  /\ scheduleToCheck = NoSchedule
  /\ detectedConflicts = << >>
  /\ previousConflicts = << >>
  /\ detectCalls = 0
  /\ alternativeStaff = << >>
  /\ returned = << >>
  /\ ServerIdle

NextCalls ==
  \/ Start
  \/ DayPhase
  \/ EveningPhase
  \/ NightPhase
  \/ PreDutyPhase
  \/ PostDutyPhase
  \/ ReturnCall
  \/ CheckBetweenCalls

SpecCalls == InitCalls /\ [][NextCalls]_vars

C22_CallsIndependent ==
  /\ \A i, j \in 1..Len(returned) :
       returned[i].inputs = returned[j].inputs
       => /\ returned[i].schedules = returned[j].schedules
          /\ returned[i].conflicts = returned[j].conflicts
  /\ SeededCounters

\* three calls have returned: the first and the third had equal inputs, the
\* second had others and returned another result, and the editor's check ran
\* in between
C22_Witness ==
  /\ Len(returned) = MaxRuns
  /\ returned[1].inputs = returned[3].inputs
  /\ returned[2].inputs # returned[1].inputs
  /\ returned[2].schedules # returned[1].schedules
  /\ Len(returned[1].schedules) > 2
  /\ returned[1].conflicts # << >>
  /\ detectCalls > 0

\* the ranking tuple of pool member s on the current date, from the counters
\* the day phase starts with
RankKey(s) ==
  LET load == staffLoads[s.id]
      pat == staffDutyPatterns[s.id]
  IN << load.totalShifts,
        WeeklyCount(weeklySchedules, getWeekKey(currentDate), s.id),
        pat.duty + pat.preDuty + pat.postDuty,
        pat.dayShift + pat.eveningShift + pat.nightShift,
        pat.dayShift,
        pat.eveningShift,
        pat.nightShift,
        0 - load.restDays,
        IF unit # "" /\ load.specialization # unit THEN 1 ELSE 0,
        s.id >>

\* k1 comes strictly before k2 in the lexicographic order
LexLess(k1, k2) ==
  \E n \in 1..Len(k1) :
    /\ \A m \in 1..(n - 1) : k1[m] = k2[m]
    /\ k1[n] < k2[n]

\* C23: on every date the ranked pool is the assignable pool sorted by the
\* tuple (total shifts, shifts this week, duty+pre+post count,
\* day+evening+night count, day count, evening count, night count, rest days
\* descending, specialization match first when a unit is given, staff id), a
\* strict total order in which an earlier key dominates every later one.
C23_LexicographicRanking ==
  [][ DayPhase =>
        /\ Len(availableStaff') = Len(AvailablePool(currentDate))
        /\ SeqToSet(availableStaff') = SeqToSet(AvailablePool(currentDate))
        /\ \A i, j \in 1..Len(availableStaff') :
             i < j => LexLess(RankKey(availableStaff'[i]), RankKey(availableStaff'[j]))
    ]_vars

\* on a later date of a run with a unit the ranked pool of four puts a higher
\* id ahead of a lower one, and a member who does not match the unit ahead of
\* one who does: earlier keys decided
C23_Witness ==
  /\ pc = "evening"
  /\ dateIdx >= 2
  /\ unit # ""
  /\ Len(availableStaff) = MaxStaff
  /\ \E i, j \in 1..Len(availableStaff) :
       /\ i < j
       /\ availableStaff[i].id > availableStaff[j].id
       /\ availableStaff[i].specialization # unit
       /\ availableStaff[j].specialization = unit

\* existingSchedules holds an entry of member s on date d
StoredOn(s, d) ==
  \E i \in 1..Len(existingSchedules) :
    existingSchedules[i].staffId = s /\ existingSchedules[i].date = d

\* C24: generateSchedule never emits an entry, in any of its five phases, for
\* a member and a date for which existingSchedules already holds an entry.
C24_NoDuplicateOfExisting ==
  \A i \in 1..Len(schedules) : ~StoredOn(schedules[i].staffId, schedules[i].date)

\* a working-shift entry was generated for member s on date d
WorkedOn(s, d) ==
  \E i \in 1..Len(schedules) :
    /\ schedules[i].staffId = s
    /\ schedules[i].date = d
    /\ Truthy(schedules[i].shiftTypeId)

\* C25: in a run with no existing schedules a consecutive_shifts warning is
\* recorded for (s, d) only if s has a generated working-shift entry on each of
\* the MAX_CONSECUTIVE_SHIFTS calendar days immediately before d.
C25_StreakWarningsAreReal ==
  existingSchedules = << >>
  => \A i \in 1..Len(conflicts) :
       conflicts[i].type = "consecutive_shifts"
       => \A k \in 1..MAX_CONSECUTIVE_SHIFTS :
            WorkedOn(conflicts[i].staffId, conflicts[i].date - k)

\* the entries of member s generated so far that are dated in a week
GeneratedInWeek(s, weekKey) ==
  {i \in 1..Len(schedules) :
     schedules[i].staffId = s /\ getWeekKey(schedules[i].date) = weekKey}

\* the entries, existing plus generated, member s has in the week of date d
EntriesInWeekOf(s, d) ==
  Cardinality(RowsInWeek(s, getWeekKey(d)))
    + Cardinality(GeneratedInWeek(s, getWeekKey(d)))

\* the conflicts list a phase leaves holds a weekly warning for (s, d)
WeeklyWarned(s, d) ==
  \E i \in 1..Len(conflicts') :
    conflicts'[i] = Conflict("exceeds_weekly_hours", s, d, "warning")

\* every entry a phase emitted for a member at the weekly cap is reported
CappedAreWarned ==
  \A i \in 1..Len(Emitted) :
    EntriesInWeekOf(Emitted[i].staffId, Emitted[i].date) >= MAX_SHIFTS_PER_WEEK
    => WeeklyWarned(Emitted[i].staffId, Emitted[i].date)

\* no entry a phase emitted is for a member at the weekly cap
NoneCapped ==
  \A i \in 1..Len(Emitted) :
    EntriesInWeekOf(Emitted[i].staffId, Emitted[i].date) < MAX_SHIFTS_PER_WEEK

\* C26: whenever a day, evening or night entry is emitted for (s, d) while s
\* already has 5 or more entries, existing plus generated, in the week of d,
\* the conflicts list holds an exceeds_weekly_hours warning for (s, d); a
\* pre-duty or post-duty entry is never emitted for a member in that situation.
C26_WeeklyCapReported ==
  [][ /\ DayPhase => CappedAreWarned
      /\ EveningPhase => CappedAreWarned
      /\ NightPhase => CappedAreWarned
      /\ PreDutyPhase => NoneCapped
      /\ PostDutyPhase => NoneCapped ]_vars

\* a day phase gave the Day Shift to a member who had five entries or more in
\* the week, and recorded the weekly warning for that member and date
C26_Witness ==
  /\ pc = "evening"
  /\ \E s \in StaffIds :
       /\ s \in assignedShifts
       /\ EntriesInWeekOf(s, currentDate) > MAX_SHIFTS_PER_WEEK
       /\ \E i \in 1..Len(conflicts) :
            conflicts[i] = Conflict("exceeds_weekly_hours", s, currentDate, "warning")
       /\ \E i \in 1..Len(schedules) :
            /\ schedules[i].staffId = s
            /\ schedules[i].date = currentDate
            /\ schedules[i].shiftTypeId = dayShiftId
            /\ schedules[i].dutyTypeId = dutyId

\* C27: a roster member with a stored Day Shift on the calendar day before
\* startDate is not given the Night Shift on startDate, whatever else
\* existingSchedules holds for the member and in whatever order it is listed.
C27_RestAcrossHistory ==
  \A s \in StaffIds :
    (\E i \in 1..Len(existingSchedules) :
       /\ existingSchedules[i].staffId = s
       /\ existingSchedules[i].date = getPreviousDay(startDate)
       /\ existingSchedules[i].shiftTypeId = dayShiftId)
    => ~\E j \in 1..Len(schedules) :
          /\ schedules[j].staffId = s
          /\ schedules[j].date = startDate
          /\ schedules[j].shiftTypeId = nightShiftId

\* the entries generated so far for member s
GeneratedFor(s) == {i \in 1..Len(schedules) : schedules[i].staffId = s}

\* the weeks the run touches: those of its dates and of the stored entries
WeeksInPlay ==
  {getWeekKey(d) : d \in SeqToSet(dates) \cup
                         {existingSchedules[i].date : i \in 1..Len(existingSchedules)}}

\* C28: at every point of a run and for every roster member, totalShifts is
\* the number of the member's existing entries with a non-null shift type plus
\* the number of entries generated for the member, the weekly counter of each
\* week is the number of the member's existing plus generated entries dated in
\* that week, StaffLoad.nightShifts equals DutyPattern.nightShift, and with no
\* existing schedules duty+preDuty+postDuty = dayShift+eveningShift+nightShift
\* = totalShifts.
C28_CounterConsistency ==
  pc \in {"day", "evening", "night", "preDuty", "postDuty", "done"}
  => \A s \in StaffIds :
       LET load == staffLoads[s]
           pat == staffDutyPatterns[s]
       IN /\ load.totalShifts
               = Cardinality(WorkedRows(s)) + Cardinality(GeneratedFor(s))
          /\ \A w \in WeeksInPlay :
               WeeklyCount(weeklySchedules, w, s)
                 = Cardinality(RowsInWeek(s, w)) + Cardinality(GeneratedInWeek(s, w))
          /\ load.nightShifts = pat.nightShift
          /\ existingSchedules = << >>
             => /\ pat.duty + pat.preDuty + pat.postDuty = load.totalShifts
                /\ pat.dayShift + pat.eveningShift + pat.nightShift = load.totalShifts

\* a run over two weeks has returned; a member with a stored shift and a stored
\* rest entry got a night shift, a pre-duty and other entries on top
C28_Witness ==
  /\ pc = "done"
  /\ endDate = MaxDate
  /\ \E s \in StaffIds :
       /\ WorkedRows(s) # {}
       /\ \E i \in 1..Len(existingSchedules) :
            existingSchedules[i].staffId = s /\ ~Truthy(existingSchedules[i].shiftTypeId)
       /\ \E i \in GeneratedFor(s) : schedules[i].shiftTypeId = nightShiftId
       /\ \E i \in GeneratedFor(s) : schedules[i].dutyTypeId = preDutyId
       /\ Cardinality(GeneratedFor(s)) > MAX_SHIFTS_PER_WEEK

\* ------------------------------------------- generateSchedule runs to its end
\* rosters of up to MaxFairStaff members, with or without a stored Day Shift of
\* staff 1 on the day before the start date (the night walk's hard skip)
InitFair ==
  /\ staff \in {Roster(n) : n \in 0..MaxFairStaff}
  /\ shiftTypes = ShiftCatalog
  /\ dutyTypes = DutyCatalog
  /\ availabilities = {}
  /\ startDate = 1
  /\ endDate \in 0..MaxFairDate
  /\ unit = ""
  /\ existingSchedules \in {<< >>, WithIds(RowsFrom(1, 1, 0))}
  /\ pc = "start"
  /\ dates = << >>
  /\ dateIdx = 1
  /\ staffLoads = << >>
  /\ staffDutyPatterns = << >>
  /\ weeklySchedules = << >>
  /\ schedules = << >>
  /\ conflicts = << >>
  /\ assignedShifts = {}
  /\ availableStaff = << >>
  /\ scheduleToCheck = NoSchedule
  /\ detectedConflicts = << >>
  /\ previousConflicts = << >>
  /\ detectCalls = 0
  /\ alternativeStaff = << >>
  /\ returned = << >>
  /\ ServerIdle

\* generateSchedule is synchronous straight-line code: a step that can be
\* taken is taken
SpecFair == InitFair /\ [][Next]_vars /\ WF_vars(Next)

\* how far the run is: the phases passed, over all dates
Progress ==
  IF pc = "start" THEN 0
  ELSE IF pc = "done" THEN 5 * Len(dates) + 1
  ELSE 5 * (dateIdx - 1)
       + (CASE pc = "day" -> 1 [] pc = "evening" -> 2 [] pc = "night" -> 3
            [] pc = "preDuty" -> 4 [] pc = "postDuty" -> 5)

\* a walk visits a member at most once: it emits at most one entry and pushes
\* at most one conflict of a kind for the member
VisitsOnce ==
  \A s \in StaffIds :
    /\ Cardinality({i \in 1..Len(Emitted) : Emitted[i].staffId = s}) <= 1
    /\ \A ty \in {"existing_assignment", "consecutive_shifts", "exceeds_weekly_hours"} :
         Cardinality({i \in PushedFor(s) : conflicts'[i].type = ty}) <= 1

\* C29: generateSchedule terminates for every roster and date range; each of
\* the day, evening and night walks visits every member of its pool at most
\* once, the hard skip of the night walk included, every step moves the run
\* forward, and a range with startDate after endDate yields an empty schedules
\* list and an empty conflicts list.
C29_Termination ==
  /\ <>(pc = "done")
  /\ []((pc = "done" /\ startDate > endDate) => (schedules = << >> /\ conflicts = << >>))
  /\ [][ /\ Progress' > Progress
         /\ Progress' <= 5 * Len(dates') + 1
         /\ (DayPhase \/ EveningPhase \/ NightPhase) => VisitsOnce ]_vars

\* a run over the whole range has returned; on its first date the night walk
\* met staff 1, who had a Day Shift the day before, skipped the member and
\* went on: no Night Shift was given on that date
C29_Witness ==
  /\ pc = "done"
  /\ Len(dates) = MaxFairDate
  /\ Len(staff) = MaxFairStaff
  /\ StoredOn(1, getPreviousDay(startDate))
  /\ ~\E i \in EntriesOn(startDate) : schedules[i].shiftTypeId = nightShiftId
  /\ \E i \in EntriesOn(startDate) : schedules[i].shiftTypeId = eveningShiftId
  /\ \E i \in EntriesOn(endDate) : schedules[i].shiftTypeId = dayShiftId

\* ------------------------------------------------ the server's schedule store
\* POST /api/schedule and POST /api/schedule/batch over MemStorage.  A handler
\* is an async function: it runs up to an await, and goes on when the awaited
\* promise is settled.  MemStorage's methods settle their promise before they
\* return, so the handler goes on in a microtask, before any other request's
\* handler starts (awaitYields = FALSE).  A storage that settles its promises
\* on I/O lets other handlers run at every await (awaitYields = TRUE).

\* the shift types the bodies name: Day Shift and Night Shift of the catalog
StoreShiftIds ==
  {ShiftCatalog[i].id :
     i \in {j \in DOMAIN ShiftCatalog : ShiftCatalog[j].name \in {"Day Shift", "Night Shift"}}}

\* the bodies a request carries: one unit, one duty type
ScheduleBodies ==
  {[staffId |-> s, date |-> d, shiftTypeId |-> t, dutyTypeId |-> 1, unit |-> "ICU"] :
     s \in 1..MaxStoreStaff, d \in 1..MaxStoreDate, t \in StoreShiftIds}

\* a lookup that finds nothing
getScheduleFindsNothing(map, staffId, date) == 0

\* MemStorage.getScheduleByStaffAndDate: the first entry of the map, in
\* insertion order, of that staff member on that date; 0 for undefined
getScheduleByStaffAndDate(map, staffId, date) ==
  LET hits == {id \in DOMAIN map : map[id].staffId = staffId /\ map[id].date = date}
  IN  IF hits = {} THEN 0 ELSE CHOOSE id \in hits : \A other \in hits : id <= other

\* MemStorage.createSchedule: the entry under the next id
createSchedule(map, id, scheduleData) ==
  Append(map, [id |-> id, staffId |-> scheduleData.staffId, date |-> scheduleData.date,
               shiftTypeId |-> scheduleData.shiftTypeId,
               dutyTypeId |-> scheduleData.dutyTypeId, unit |-> scheduleData.unit])

\* MemStorage.updateSchedule: the stored entry overwritten by the body's fields
updateSchedule(map, id, scheduleData) ==
  IF id \notin DOMAIN map THEN map
  ELSE [map EXCEPT ![id] =
          [id |-> id, staffId |-> scheduleData.staffId, date |-> scheduleData.date,
           shiftTypeId |-> scheduleData.shiftTypeId,
           dutyTypeId |-> scheduleData.dutyTypeId, unit |-> scheduleData.unit]]

\* the entry a store may hold before the requests arrive
StoredBody == CHOOSE b \in ScheduleBodies : b.staffId = 1 /\ b.date = 1

\* a request as it arrives: its route, its parsed body (one entry for
\* /api/schedule, a list for /api/schedule/batch), the entry being handled,
\* the await the handler is at, what the lookup returned and the response
NewRequest(route, body) ==
  [route |-> route, body |-> body, item |-> 1, at |-> "lookup", existingSchedule |-> 0,
   status |-> 0]

ArrivingRequests ==
  {NewRequest("schedule", << b >>) : b \in ScheduleBodies}
    \cup {NewRequest("batch", body) : body \in SeqsUpTo(ScheduleBodies, MaxBatch) \ {<< >>}}

\* a handler that has passed its first await and has not responded
InFlight(r) == r.status = 0 /\ ~(r.at = "lookup" /\ r.item = 1)

\* request k's handler may take its next step
MayRun(k) ==
  /\ requests[k].status = 0
  /\ requests[k].item <= Len(requests[k].body)
  /\ awaitYields \/ \A j \in DOMAIN requests : j # k => ~InFlight(requests[j])

\* the handler after an entry of a batch is done
NextItem(r) ==
  IF r.item < Len(r.body)
  THEN [r EXCEPT !.item = r.item + 1, !.at = "lookup", !.existingSchedule = 0]
  ELSE [r EXCEPT !.item = r.item + 1, !.at = "responded", !.status = 201]

\* await storage.getScheduleByStaffAndDate(staffId, date), and the branch on it
LookupStep(k) ==
  LET r == requests[k]
      scheduleData == r.body[r.item]
      existingSchedule ==
        getScheduleByStaffAndDate(schedulesMap, scheduleData.staffId, scheduleData.date)
  IN  /\ MayRun(k)
      /\ r.at = "lookup"
      /\ requests' =
           [requests EXCEPT ![k] =
              IF existingSchedule # 0 /\ r.route = "schedule"
              THEN [r EXCEPT !.at = "responded", !.status = 409,
                             !.existingSchedule = existingSchedule]
              ELSE [r EXCEPT !.at = IF existingSchedule # 0 THEN "update" ELSE "create",
                             !.existingSchedule = existingSchedule]]
      /\ UNCHANGED << schedulesMap, scheduleIdCounter, awaitYields >>
      /\ UNCHANGED << genInputs, genLocals, detVars, returned >>

\* await storage.createSchedule(scheduleData)
CreateStep(k) ==
  LET r == requests[k]
  IN  /\ MayRun(k)
      /\ r.at = "create"
      /\ schedulesMap' = createSchedule(schedulesMap, scheduleIdCounter, r.body[r.item])
      /\ scheduleIdCounter' = scheduleIdCounter + 1
      /\ requests' = [requests EXCEPT ![k] = NextItem(r)]
      /\ UNCHANGED awaitYields
      /\ UNCHANGED << genInputs, genLocals, detVars, returned >>

\* await storage.updateSchedule(existingSchedule.id, scheduleData)
UpdateStep(k) ==
  LET r == requests[k]
  IN  /\ MayRun(k)
      /\ r.at = "update"
      /\ schedulesMap' = updateSchedule(schedulesMap, r.existingSchedule, r.body[r.item])
      /\ requests' = [requests EXCEPT ![k] = NextItem(r)]
      /\ UNCHANGED << scheduleIdCounter, awaitYields >>
      /\ UNCHANGED << genInputs, genLocals, detVars, returned >>

\* the store holds at most one entry per (staffId, date)
OnePerStaffAndDate(map) ==
  \A i, j \in DOMAIN map :
    (map[i].staffId = map[j].staffId /\ map[i].date = map[j].date) => i = j

\* the generator is not running; the store is empty or holds one entry, and
\* up to MaxRequests requests have arrived
InitStore ==
  /\ staff = << >>
  /\ shiftTypes = ShiftCatalog
  /\ dutyTypes = DutyCatalog
  /\ availabilities = {}
  /\ startDate = 1
  /\ endDate = 0
  /\ unit = ""
  /\ existingSchedules = << >>
  /\ pc = "serving"
  /\ dates = << >>
  /\ dateIdx = 1
  /\ staffLoads = << >>
  /\ staffDutyPatterns = << >>
  /\ weeklySchedules = << >>
  /\ schedules = << >>
  /\ conflicts = << >>
  /\ assignedShifts = {}
  /\ availableStaff = << >>
  /\ scheduleToCheck = NoSchedule
  /\ detectedConflicts = << >>
  /\ previousConflicts = << >>
  /\ detectCalls = 0
  /\ alternativeStaff = << >>
  /\ returned = << >>
  /\ schedulesMap \in {<< >>, createSchedule(<< >>, 1, StoredBody)}
  /\ scheduleIdCounter = Len(schedulesMap) + 1
  /\ requests \in {q \in SeqsUpTo(ArrivingRequests, MaxRequests) : q # << >>}
  /\ awaitYields \in BOOLEAN

NextStore ==
  \/ \E k \in DOMAIN requests : LookupStep(k)
  \/ \E k \in DOMAIN requests : CreateStep(k)
  \/ \E k \in DOMAIN requests : UpdateStep(k)

SpecStore == InitStore /\ [][NextStore]_vars

\* the entries of the requests that aim at (staffId, date)
AimedAt(r, staffId, date) ==
  {i \in DOMAIN r.body : r.body[i].staffId = staffId /\ r.body[i].date = date}

====
